---- MODULE Spec2Model ----
(***************************************************************************)
(* Goal dashboard (GoalsDashboard.tsx), yearly summary with the           *)
(* completion-transition effect (YearlySummaryTable.tsx) and the capture  *)
(* flow of the celebration modal (MonthlyCompletionCelebrationModal.tsx). *)
(*                                                                         *)
(* Spec        : the dashboard: completion and month of goals, add and     *)
(*               delete, persistence, view switch, reload.                 *)
(* PromptSpec  : toggling and the month prompt over any collection.        *)
(* SummarySpec : the summary view over any collection the dashboard hands  *)
(*               to it: summary checkboxes, completion detection, Maybe    *)
(*               Later and the placeholder.                                *)
(* StatsSpec   : the summary view over a large collection: the monthly    *)
(*               statistics while boxes are checked in order.              *)
(* FlowSpec    : one celebration modal instance and its capture flow.      *)
(* OverlapSpec : the same modal where capture flows overlap: a camera that  *)
(*               always starts, a user who only clicks Take Selfie.        *)
(* FrameSpec   : toggles and month prompts, then the summary checkboxes.   *)
(* StorageSpec : page loads and toggles over a storage that can hold any   *)
(*               value and can fail to read or write.                      *)
(* MutationSpec: every goal handler and reload over a working storage.     *)
(* EditSpec    : adding, deleting and editing goals while the clock runs.  *)
(* HandlerSpec : the goal handlers called with ids that match nothing.     *)
(* MemorySpec  : one capture flow, the preview, Save, the saved notice and *)
(*               the upload of a file, over the store of the memories.     *)
(* CountdownSpec : the modal with two suspended handleTakeSelfie calls and *)
(*               their countdowns.                                         *)
(* MemoryStoreSpec: the memory storage functions called for any month.     *)
(* RetainedSpec : toggles and month prompts, then the summary view entered *)
(*               and left: the retained completion map.                    *)
(* PreviewSpec  : the start of the camera up to the countdown, with a      *)
(*               preview that gets ready or throws.                        *)
(* IdleSpec     : capture flows of a modal that is closed and opened.      *)
(* MemoryRowSpec: the Monthly Memory row: uploads, Maybe Later and the     *)
(*               placeholder while the summary is left and entered.        *)
(* RoundingSpec : the percentages of months of few and of many goals.      *)
(***************************************************************************)
EXTENDS Integers, Sequences, FiniteSets, Bags, TLC

(***************************************************************************)
(* Bounds                                                                  *)
(***************************************************************************)
\* number of calendar months kept (a prefix of MONTHS)
NumMonths == 2
\* largest value of Date.now() the clock reaches
MaxClock == 1
\* largest number of goals the collection holds (addGoal is disabled beyond it)
MaxGoals == 2
\* largest number of setTimeout(0) callbacks of addGoal pending at once
MaxTimers == 1
\* largest flow id handleCapture hands out
MaxFlows == 2
\* largest number of handleTakeSelfie calls suspended at once
MaxSelfieTasks == 1
\* largest number of attemptCapture calls suspended at once
MaxInFlight == 1
\* largest number of pending timeouts and intervals of the modal
MaxPending == 3
\* largest number of goals of one month in the collection the statistics are
\* computed for
MaxEligible == 40
\* largest flow id handed out where capture flows overlap
OverlapFlows == 3
\* largest number of attemptCapture calls suspended at once where flows overlap
OverlapInFlight == 2

(***************************************************************************)
(* Data                                                                    *)
(***************************************************************************)
\* value of an absent `month` (goal.month === undefined)
Undefined == "undefined"
\* value of a state holding null where the other values are strings
Null == "null"
\* null, and a present value x, of a state holding an object or null
None == <<>>
Some(x) == <<x>>

AllMonths ==
  <<"January", "February", "March", "April", "May", "June", "July",
    "August", "September", "October", "November", "December">>

MONTHS == SubSeq(AllMonths, 1, NumMonths)

MonthSet == {MONTHS[i] : i \in 1..Len(MONTHS)}

\* position of a month in calendar order
MonthIndex(m) == CHOOSE i \in 1..Len(MONTHS) : MONTHS[i] = m

\* the categories kept of the seed, in their order of the seed
CardOrder == <<"career", "health">>

CardIds == {CardOrder[i] : i \in 1..Len(CardOrder)}

\* seed collection: one uncompleted goal, and the goal the seed ships completed
initialCards ==
  [c \in CardIds |->
     IF c = "career"
       THEN << [id |-> "c1", text |-> <<"P">>, completed |-> FALSE, month |-> Undefined] >>
       ELSE << [id |-> "h3", text |-> <<"D">>, completed |-> TRUE, month |-> Undefined] >>]

\* texts the user types into the edit input
EditInputs == { <<" ">>, <<" ", "x">> }

\* text of a goal created by addGoal
NewGoalText == <<"N">>

VARIABLES
  \* GoalsDashboard state
  cards, editingGoal, editText, view, monthModalOpen, selectedMonth, pendingGoal,
  \* setTimeout(0) callbacks of addGoal not yet run, Date.now(), localStorage goals key
  editTimers, now, storedGoals,
  \* the dashboard handler that ran last, with its case
  lastOp,
  \* the call whose exception reached React uncaught and unmounted the page, if any
  fault,
  \* YearlySummaryTable state
  checkedState, celebrationModalOpen, celebratingMonth, previousCompletionRef,
  \* months for which Maybe Later was clicked since the summary was mounted
  maybeLaterMonths,
  \* the memories the summary shows: its state monthlyMemories
  monthlyMemories,
  \* months for which the last detection pass called setCelebrationModalOpen(true)
  openedInPass,
  \* MonthlyCompletionCelebrationModal state
  selectedImage, countdown, isCameraMode, cameraError, isStartingCamera, isProcessing,
  isSelfieCapture, isCapturingPhoto,
  \* its refs
  countdownTimerRef, retryIntervalRef, captureTimeoutRef, isCapturingRef, flowRunIdRef,
  activeFlowIdRef,
  \* activeFlowIdRef.current !== null as the last render read it
  renderedFlowActive,
  \* state of the camera hook
  isActive, isSupported, error,
  \* pending timeouts and intervals by handle, suspended handleTakeSelfie calls,
  \* suspended attemptCapture calls
  timers, selfieTasks, captures,
  \* flow ids of which some capturePhoto() returned a file or threw
  nonNullFlows,
  \* the saved notice of the modal and its pendingCloseRef
  showSaveNotification, pendingCloseRef,
  \* suspended handleFileChange calls
  uploads,
  \* localStorage, the keys of the monthly memories
  memoryStore

dashVars == <<cards, editingGoal, editText, view, monthModalOpen, selectedMonth,
              pendingGoal, editTimers, now, storedGoals, lastOp, fault>>

summaryVars == <<checkedState, celebrationModalOpen, celebratingMonth,
                 previousCompletionRef, maybeLaterMonths, monthlyMemories,
                 openedInPass>>

flowVars == <<selectedImage, countdown, isCameraMode, cameraError, isStartingCamera,
              isProcessing, isSelfieCapture, isCapturingPhoto, countdownTimerRef,
              retryIntervalRef, captureTimeoutRef, isCapturingRef, flowRunIdRef,
              activeFlowIdRef, renderedFlowActive,
              isActive, isSupported, error, timers, selfieTasks, captures, nonNullFlows,
              showSaveNotification, pendingCloseRef, uploads, memoryStore>>

vars == <<dashVars, summaryVars, flowVars>>

(***************************************************************************)
(* Helpers                                                                 *)
(***************************************************************************)
\* no exception has reached React
NoFault == "none"

\* the empty object {}
EmptyMap == [k \in {} |-> FALSE]

(***************************************************************************)
(* Persistence of the goal collection                                      *)
(***************************************************************************)
\* variant: an undefined month is written as null
StringifyGoal_NullMonth(g) ==
  [id |-> g.id, text |-> g.text, completed |-> g.completed,
   month |-> IF g.month = Undefined THEN Null ELSE g.month]

\* JSON.stringify of one goal: a property whose value is undefined is dropped
StringifyGoal(g) ==
  IF g.month = Undefined
    THEN [id |-> g.id, text |-> g.text, completed |-> g.completed]
    ELSE [id |-> g.id, text |-> g.text, completed |-> g.completed, month |-> g.month]

\* JSON.stringify(cards)
Stringify(cs) ==
  [c \in DOMAIN cs |-> [i \in 1..Len(cs[c]) |-> StringifyGoal(cs[c][i])]]

\* reading goal.month of a parsed goal: a missing property reads undefined
ParseGoal(j) ==
  [id |-> j.id, text |-> j.text, completed |-> j.completed,
   month |-> IF "month" \in DOMAIN j THEN j.month ELSE Undefined]

\* JSON.parse(stored), as the dashboard reads it
Parse(js) ==
  [c \in DOMAIN js |-> [i \in 1..Len(js[c]) |-> ParseGoal(js[c][i])]]

\* a stored text that is not a serialised collection, by its characters
Text(chars) == [text |-> chars]

IsText(v) == "text" \in DOMAIN v

\* the texts on which JSON.parse throws a SyntaxError
Unparseable == {"", "{"}

\* JSON.parse(stored) of a text that parses: a collection as the dashboard reads
\* it, any other JSON value by its text
JsonParse(v) == IF IsText(v) THEN [json |-> v.text] ELSE Parse(v)

\* useState initialiser of cards: localStorage.getItem, `if (stored)`, then
\* JSON.parse in try/catch
LoadCards(stored) ==
  IF stored = None \/ stored = Some(Text(""))
    THEN initialCards
    ELSE IF IsText(stored[1]) /\ stored[1].text \in Unparseable
           THEN initialCards
           ELSE JsonParse(stored[1])

\* the first render raises a TypeError: cards.length of null, cards.map of a value
\* that is no array, card.goals.map of an element without goals
RenderThrows(cs) == "json" \in DOMAIN cs

\* the persist effect: localStorage.setItem(STORAGE_KEY, JSON.stringify(cards))
PersistEffect(cs) == Some(Stringify(cs))

(***************************************************************************)
(* Persistence of the monthly memories                                     *)
(***************************************************************************)
\* String.prototype.toLowerCase on the names of the months
LowerCaseMonths ==
  <<"january", "february", "march", "april", "may", "june", "july",
    "august", "september", "october", "november", "december">>

toLowerCase(month) == LowerCaseMonths[CHOOSE i \in 1..Len(AllMonths) : AllMonths[i] = month]

\* `${STORAGE_KEY_PREFIX}${month.toLowerCase()}`
getStorageKey(month) == "monthly-memory-" \o toLowerCase(month)

\* the keys of the monthly memories; getItem of a key never written returns null
MemoryKeys == {getStorageKey(m) : m \in MonthSet}

EmptyStore == [k \in MemoryKeys |-> Null]

\* variant: every memory is written under the key of the first month
saveMonthlyMemory_FirstKey(store, month, imageDataUrl, setItemThrows) ==
  IF setItemThrows THEN store
  ELSE [store EXCEPT ![getStorageKey(MONTHS[1])] = imageDataUrl]

\* saveMonthlyMemory(month, imageDataUrl): setItem in try/catch, a throw
\* (quota exceeded) is logged and the store stays as it was
saveMonthlyMemory(store, month, imageDataUrl, setItemThrows) ==
  IF setItemThrows THEN store
  ELSE [store EXCEPT ![getStorageKey(month)] = imageDataUrl]

\* getMonthlyMemory(month)
getMonthlyMemory(store, month) == store[getStorageKey(month)]

\* getMonthlyMemory(month) where getItem may throw (storage access denied): the
\* catch returns null
getMonthlyMemoryCatching(store, month, getItemThrows) ==
  IF getItemThrows THEN Null ELSE getMonthlyMemory(store, month)

\* variant: every memory is removed
clearMonthlyMemory_AllKeys(store, month, removeItemThrows) ==
  IF removeItemThrows THEN store ELSE [k \in DOMAIN store |-> Null]

\* clearMonthlyMemory(month): removeItem in try/catch, a throw is logged
clearMonthlyMemory(store, month, removeItemThrows) ==
  IF removeItemThrows THEN store
  ELSE [store EXCEPT ![getStorageKey(month)] = Null]

\* `if (memory)`: null and the empty string are no memory
IsMemory(memory) == memory # Null /\ memory # ""

\* getAllMonthlyMemories(): a Map of the months that have a memory
getAllMonthlyMemories(store) ==
  [m \in {x \in MonthSet : IsMemory(getMonthlyMemory(store, x))} |->
     getMonthlyMemory(store, m)]

\* new Map()
NoMemories == [m \in {} |-> Null]

(***************************************************************************)
(* Goal mutations of GoalsDashboard                                        *)
(***************************************************************************)
\* cards.find(c => c.id === cardId)?.goals.find(g => g.id === goalId)
HasGoal(cs, cardId, goalId) ==
  /\ cardId \in DOMAIN cs
  /\ \E i \in 1..Len(cs[cardId]) : cs[cardId][i].id = goalId

FindGoal(cs, cardId, goalId) ==
  LET i == CHOOSE k \in 1..Len(cs[cardId]) :
             /\ cs[cardId][k].id = goalId
             /\ \A j \in 1..(k - 1) : cs[cardId][j].id # goalId
  IN cs[cardId][i]

\* the goals of a category, as a set; none for an id that no category carries
GoalsOf(cs, cardId) ==
  IF cardId \in DOMAIN cs THEN {cs[cardId][i] : i \in 1..Len(cs[cardId])} ELSE {}

\* variant: without a goal of the id, the first goal of the category is mapped
MapGoal_FirstWhenMissing(cs, cardId, goalId, f) ==
  [c \in DOMAIN cs |->
     IF c = cardId
       THEN [i \in 1..Len(cs[c]) |->
               IF \/ cs[c][i].id = goalId
                  \/ i = 1 /\ \A j \in 1..Len(cs[c]) : cs[c][j].id # goalId
                 THEN f[cs[c][i]] ELSE cs[c][i]]
       ELSE cs[c]]

\* prevCards.map(card => card.id === cardId
\*   ? {...card, goals: card.goals.map(goal => goal.id === goalId ? f[goal] : goal)} : card)
MapGoal(cs, cardId, goalId, f) ==
  [c \in DOMAIN cs |->
     IF c = cardId
       THEN [i \in 1..Len(cs[c]) |-> IF cs[c][i].id = goalId THEN f[cs[c][i]] ELSE cs[c][i]]
       ELSE cs[c]]

\* variant: unchecking keeps the month
Uncheck_KeepMonth(g) == [g EXCEPT !.completed = FALSE]

\* { ...goal, completed: false, month: undefined }
Uncheck(g) == [g EXCEPT !.completed = FALSE, !.month = Undefined]

\* { ...goal, completed: !goal.completed }
FlipCompleted(g) == [g EXCEPT !.completed = ~g.completed]

\* { ...goal, completed: false }
RevertCompleted(g) == [g EXCEPT !.completed = FALSE]

\* `${cardId}-${Date.now()}`
NewGoalId(cardId, t) == cardId \o "-" \o ToString(t)

\* String.prototype.trim on a text given as its sequence of characters
RECURSIVE TrimStart(_)
TrimStart(t) == IF t # <<>> /\ Head(t) = " " THEN TrimStart(Tail(t)) ELSE t

RECURSIVE TrimEnd(_)
TrimEnd(t) ==
  IF t # <<>> /\ t[Len(t)] = " " THEN TrimEnd(SubSeq(t, 1, Len(t) - 1)) ELSE t

Trim(t) == TrimEnd(TrimStart(t))

RECURSIVE SumSeq(_)
SumSeq(s) == IF s = <<>> THEN 0 ELSE Head(s) + SumSeq(Tail(s))

\* number of goals of the collection
TotalGoals(cs) == SumSeq([i \in 1..Len(CardOrder) |-> Len(cs[CardOrder[i]])])

\* toggleGoal(cardId, goalId)
toggleGoal(cardId, goalId) ==
  /\ view = "dashboard"
  /\ IF ~HasGoal(cards, cardId, goalId)
       THEN \* if (!goal) return
            /\ UNCHANGED <<cards, pendingGoal, selectedMonth, monthModalOpen, storedGoals>>
            /\ lastOp' = "toggleGoal:none"
       ELSE /\ LET goal == FindGoal(cards, cardId, goalId)
                   isBeingChecked == ~goal.completed
               IN IF ~isBeingChecked
                    THEN /\ cards' = MapGoal(cards, cardId, goalId,
                                             [g \in GoalsOf(cards, cardId) |-> Uncheck(g)])
                         /\ UNCHANGED <<pendingGoal, selectedMonth, monthModalOpen>>
                    ELSE /\ cards' = MapGoal(cards, cardId, goalId,
                                             [g \in GoalsOf(cards, cardId) |-> FlipCompleted(g)])
                         /\ pendingGoal' = Some([cardId |-> cardId, goalId |-> goalId])
                         /\ selectedMonth' = Null
                         /\ monthModalOpen' = TRUE
            /\ storedGoals' = PersistEffect(cards')
            /\ lastOp' = IF FindGoal(cards, cardId, goalId).completed
                           THEN IF FindGoal(cards, cardId, goalId).month # Undefined
                                  THEN "toggleGoal:uncheck-month" ELSE "toggleGoal:uncheck"
                           ELSE "toggleGoal:check"
  /\ UNCHANGED <<editingGoal, editText, view, editTimers, now>>
  /\ UNCHANGED <<fault, summaryVars, flowVars>>

\* onMonthSelect = setSelectedMonth, from a month button of the open prompt
onMonthSelect(month) ==
  /\ view = "dashboard"
  /\ monthModalOpen
  /\ selectedMonth' = month
  /\ UNCHANGED <<cards, editingGoal, editText, view, monthModalOpen, pendingGoal,
                 editTimers, now, storedGoals>>
  /\ lastOp' = "onMonthSelect"
  /\ UNCHANGED <<fault, summaryVars, flowVars>>

\* { ...goal, month: selectedMonth }
AssignMonth(g, month) == [g EXCEPT !.month = month]

\* handleMonthConfirm, from the Confirm button (disabled while nothing is selected)
handleMonthConfirm ==
  /\ view = "dashboard"
  /\ monthModalOpen
  /\ selectedMonth # Null
  /\ pendingGoal # None
  /\ cards' = MapGoal(cards, pendingGoal[1].cardId, pendingGoal[1].goalId,
                      [g \in GoalsOf(cards, pendingGoal[1].cardId) |->
                         AssignMonth(g, selectedMonth)])
  /\ monthModalOpen' = FALSE
  /\ selectedMonth' = Null
  /\ pendingGoal' = None
  /\ storedGoals' = PersistEffect(cards')
  /\ UNCHANGED <<editingGoal, editText, view, editTimers, now>>
  /\ lastOp' = "handleMonthConfirm"
  /\ UNCHANGED <<fault, summaryVars, flowVars>>

\* handleMonthCancel, from the Cancel button or handleModalOpenChange(false)
handleMonthCancel ==
  /\ view = "dashboard"
  /\ monthModalOpen
  /\ IF pendingGoal # None
       THEN /\ cards' = MapGoal(cards, pendingGoal[1].cardId, pendingGoal[1].goalId,
                                [g \in GoalsOf(cards, pendingGoal[1].cardId) |->
                                   RevertCompleted(g)])
            /\ storedGoals' = PersistEffect(cards')
       ELSE UNCHANGED <<cards, storedGoals>>
  /\ monthModalOpen' = FALSE
  /\ selectedMonth' = Null
  /\ pendingGoal' = None
  /\ UNCHANGED <<editingGoal, editText, view, editTimers, now>>
  /\ lastOp' = "handleMonthCancel"
  /\ UNCHANGED <<fault, summaryVars, flowVars>>

\* startEditing(cardId, goalId, currentText), from a click on a goal's label
startEditing(cardId, goalId) ==
  /\ view = "dashboard"
  /\ HasGoal(cards, cardId, goalId)
  /\ editingGoal' = Some([cardId |-> cardId, goalId |-> goalId])
  /\ editText' = FindGoal(cards, cardId, goalId).text
  /\ UNCHANGED <<cards, view, monthModalOpen, selectedMonth, pendingGoal,
                 editTimers, now, storedGoals>>
  /\ lastOp' = "startEditing"
  /\ UNCHANGED <<fault, summaryVars, flowVars>>

\* onChange of the edit input: setEditText(e.target.value)
setEditText(text) ==
  /\ view = "dashboard"
  /\ editingGoal # None
  /\ editText' = text
  /\ UNCHANGED <<cards, editingGoal, view, monthModalOpen, selectedMonth, pendingGoal,
                 editTimers, now, storedGoals>>
  /\ lastOp' = "setEditText"
  /\ UNCHANGED <<fault, summaryVars, flowVars>>

\* variant: the edit is kept in memory only
saveEdit_Unsaved ==
  /\ view = "dashboard"
  /\ editingGoal # None
  /\ cards' = MapGoal(cards, editingGoal[1].cardId, editingGoal[1].goalId,
                      [g \in GoalsOf(cards, editingGoal[1].cardId) |->
                         [g EXCEPT !.text = Trim(editText)]])
  /\ editingGoal' = None
  /\ editText' = <<>>
  /\ UNCHANGED <<view, monthModalOpen, selectedMonth, pendingGoal, editTimers, now,
                 storedGoals>>
  /\ lastOp' = "saveEdit"
  /\ UNCHANGED <<fault, summaryVars, flowVars>>

\* saveEdit, from blur or Enter of the edit input
saveEdit ==
  /\ view = "dashboard"
  /\ editingGoal # None
  /\ LET trimmedText == Trim(editText)
     IN IF trimmedText # <<>>
          THEN /\ cards' = MapGoal(cards, editingGoal[1].cardId, editingGoal[1].goalId,
                                   [g \in GoalsOf(cards, editingGoal[1].cardId) |->
                                      [g EXCEPT !.text = trimmedText]])
               /\ storedGoals' = PersistEffect(cards')
          ELSE UNCHANGED <<cards, storedGoals>>
  /\ editingGoal' = None
  /\ editText' = <<>>
  /\ UNCHANGED <<view, monthModalOpen, selectedMonth, pendingGoal, editTimers, now>>
  /\ lastOp' = "saveEdit"
  /\ UNCHANGED <<fault, summaryVars, flowVars>>

\* cancelEdit, from Escape of the edit input
cancelEdit ==
  /\ view = "dashboard"
  /\ editingGoal # None
  /\ editingGoal' = None
  /\ editText' = <<>>
  /\ UNCHANGED <<cards, view, monthModalOpen, selectedMonth, pendingGoal,
                 editTimers, now, storedGoals>>
  /\ lastOp' = "cancelEdit"
  /\ UNCHANGED <<fault, summaryVars, flowVars>>

\* deleteGoal(cardId, goalId)
deleteGoal(cardId, goalId) ==
  /\ view = "dashboard"
  /\ cards' = [c \in DOMAIN cards |->
                 IF c = cardId THEN SelectSeq(cards[c], LAMBDA g : g.id # goalId)
                               ELSE cards[c]]
  /\ storedGoals' = PersistEffect(cards')
  /\ UNCHANGED <<editingGoal, editText, view, monthModalOpen, selectedMonth, pendingGoal,
                 editTimers, now>>
  /\ lastOp' = "deleteGoal"
  /\ UNCHANGED <<fault, summaryVars, flowVars>>

\* addGoal(cardId); the add button of a category is shown on its last goal
addGoal(cardId) ==
  /\ view = "dashboard"
  /\ cardId \in DOMAIN cards => Len(cards[cardId]) > 0
  /\ TotalGoals(cards) < MaxGoals
  /\ Len(editTimers) < MaxTimers
  /\ LET newGoalId == NewGoalId(cardId, now)
     IN /\ cards' = [c \in DOMAIN cards |->
                       IF c = cardId
                         THEN Append(cards[c], [id |-> newGoalId, text |-> NewGoalText,
                                                completed |-> FALSE, month |-> Undefined])
                         ELSE cards[c]]
        /\ editTimers' = Append(editTimers, [cardId |-> cardId, goalId |-> newGoalId])
  /\ storedGoals' = PersistEffect(cards')
  /\ UNCHANGED <<editingGoal, editText, view, monthModalOpen, selectedMonth, pendingGoal, now>>
  /\ lastOp' = "addGoal"
  /\ UNCHANGED <<fault, summaryVars, flowVars>>

\* the setTimeout(0) callback of addGoal: startEditing(cardId, newGoalId, 'New goal')
addGoalTimer ==
  /\ editTimers # <<>>
  /\ editingGoal' = Some(Head(editTimers))
  /\ editText' = NewGoalText
  /\ editTimers' = Tail(editTimers)
  /\ UNCHANGED <<cards, view, monthModalOpen, selectedMonth, pendingGoal, now, storedGoals>>
  /\ lastOp' = "addGoalTimer"
  /\ UNCHANGED <<fault, summaryVars, flowVars>>

\* the clock read by Date.now() advances
Tick ==
  /\ now < MaxClock
  /\ now' = now + 1
  /\ UNCHANGED <<cards, editingGoal, editText, view, monthModalOpen, selectedMonth,
                 pendingGoal, editTimers, storedGoals>>
  /\ lastOp' = lastOp
  /\ UNCHANGED <<fault, summaryVars, flowVars>>

(***************************************************************************)
(* Number arithmetic of calculateMonthStatistics (IEEE 754 doubles)        *)
(***************************************************************************)
\* bits of the significand of a double
SignificandBits == 53

\* a sequence of n zero bits
Zeros(n) == [i \in 1..n |-> 0]

\* the integer a bit sequence (most significant bit first) writes
RECURSIVE BitsToInt(_)
BitsToInt(b) ==
  IF b = <<>> THEN 0 ELSE 2 * BitsToInt(SubSeq(b, 1, Len(b) - 1)) + b[Len(b)]

\* the n lowest bits of an integer
IntToBits(v, n) == [i \in 1..n |-> (v \div 2^(n - i)) % 2]

\* a bit sequence that holds a 1, without its leading zeros
StripZeros(b) ==
  LET first == CHOOSE i \in 1..Len(b) : b[i] = 1 /\ \A j \in 1..(i - 1) : b[j] = 0
  IN SubSeq(b, first, Len(b))

\* a bit sequence plus 1
Increment(b) ==
  IF \A i \in 1..Len(b) : b[i] = 1
    THEN <<1>> \o Zeros(Len(b))
    ELSE LET last == CHOOSE i \in 1..Len(b) :
                       b[i] = 0 /\ \A j \in (i + 1)..Len(b) : b[j] = 1
         IN [i \in 1..Len(b) |-> IF i < last THEN b[i] ELSE IF i = last THEN 1 ELSE 0]

\* a positive double: the integer written by `bits` times 2^(-p)
Double(bits, p) == [bits |-> bits, p |-> p]

\* round-to-nearest-even of an exact result to a double; `inexact` tells that the
\* exact result is larger than `bits` writes
RoundToDouble(bits, p, inexact) ==
  IF Len(bits) <= SignificandBits
    THEN Double(bits, p)
    ELSE LET keep == SubSeq(bits, 1, SignificandBits)
             rest == SubSeq(bits, SignificandBits + 1, Len(bits))
             more == inexact \/ \E i \in 2..Len(rest) : rest[i] = 1
             up == rest[1] = 1 /\ (more \/ keep[SignificandBits] = 1)
         IN Double(IF up THEN Increment(keep) ELSE keep,
                   p - (Len(bits) - SignificandBits))

\* checkedGoals / totalGoals, for 0 < checkedGoals <= totalGoals < 2048: the first
\* 54 bits of the quotient by long division (1 + 13 + 20 + 20 bits), then rounded
Quotient(checkedGoals, totalGoals) ==
  LET k == CHOOSE e \in 0..11 :
             /\ checkedGoals * 2^e >= totalGoals
             /\ e > 0 => checkedGoals * 2^(e - 1) < totalGoals
      r0 == checkedGoals * 2^k - totalGoals
      q1 == (r0 * 2^13) \div totalGoals
      r1 == (r0 * 2^13) % totalGoals
      q2 == (r1 * 2^20) \div totalGoals
      r2 == (r1 * 2^20) % totalGoals
      q3 == (r2 * 2^20) \div totalGoals
      r3 == (r2 * 2^20) % totalGoals
  IN RoundToDouble(<<1>> \o IntToBits(q1, 13) \o IntToBits(q2, 20) \o IntToBits(q3, 20),
                   SignificandBits + k, r3 # 0)

\* x * 100, the significand multiplied in three parts of 13, 20 and 20 bits
Times100(x) ==
  LET n == Len(x.bits)
      lo == 100 * BitsToInt(SubSeq(x.bits, n - 19, n))
      mid == 100 * BitsToInt(SubSeq(x.bits, n - 39, n - 20)) + lo \div 2^20
      hi == 100 * BitsToInt(SubSeq(x.bits, 1, n - 40)) + mid \div 2^20
  IN RoundToDouble(StripZeros(IntToBits(hi, 21) \o IntToBits(mid % 2^20, 20)
                                \o IntToBits(lo % 2^20, 20)),
                   x.p, FALSE)

\* Math.round(x): the nearest integer, halves upwards
MathRound(x) ==
  LET intLen == Len(x.bits) - x.p
  IN IF x.p <= 0
       THEN BitsToInt(x.bits \o Zeros(0 - x.p))
       ELSE BitsToInt(SubSeq(x.bits, 1, intLen))
              + (IF intLen >= 0 /\ intLen < Len(x.bits) THEN x.bits[intLen + 1] ELSE 0)

(***************************************************************************)
(* YearlySummaryTable: statistics and the completion-transition effect     *)
(***************************************************************************)
\* `${goal.cardId}-${goal.id}-${month}`
CheckboxId(cardId, goalId, month) == cardId \o "-" \o goalId \o "-" \o month

\* variant: a checkbox never toggled counts as checked
Checked_UndefinedCounts(cs, checkboxId) == checkboxId \notin DOMAIN cs \/ cs[checkboxId]

\* checkedState[checkboxId], read as a condition (undefined is falsy)
Checked(cs, checkboxId) == checkboxId \in DOMAIN cs /\ cs[checkboxId]

\* categoryMonthGoals.get(card.id)?.get(month): goal.completed && goal.month
MonthGoals(cs, cardId, month) ==
  SelectSeq(cs[cardId], LAMBDA g : g.completed /\ g.month # Undefined /\ g.month = month)

\* Math.round((checkedGoals / totalGoals) * 100) for every pair of counts a month
\* can have, computed once
Percentages ==
  [totalGoals \in 1..MaxEligible |->
     [checkedGoals \in 1..totalGoals |->
        MathRound(Times100(Quotient(checkedGoals, totalGoals)))]]

\* variant: the percentage is cut off at the point
RoundPercentage_Truncated(checkedGoals, totalGoals) ==
  (100 * checkedGoals) \div totalGoals

\* Math.round((checkedGoals / totalGoals) * 100): read from the table, computed
\* for the counts that the table does not hold
RoundPercentage(checkedGoals, totalGoals) ==
  IF checkedGoals = 0 THEN 0
  ELSE IF totalGoals <= MaxEligible THEN Percentages[totalGoals][checkedGoals]
  ELSE MathRound(Times100(Quotient(checkedGoals, totalGoals)))

\* isComplete of calculateMonthStatistics
IsCompleteOf(checkedGoals, totalGoals) == checkedGoals = totalGoals

\* calculateMonthStatistics(month); progress is the fraction <<numerator, denominator>>
calculateMonthStatistics(cs, checked, month) ==
  LET IsChecked(cardId) ==
        LET goals == MonthGoals(cs, cardId, month)
        IN Cardinality({i \in 1..Len(goals) :
                          Checked(checked, CheckboxId(cardId, goals[i].id, month))})
      totalGoals ==
        SumSeq([i \in 1..Len(CardOrder) |-> Len(MonthGoals(cs, CardOrder[i], month))])
      checkedGoals ==
        SumSeq([i \in 1..Len(CardOrder) |-> IsChecked(CardOrder[i])])
  IN IF totalGoals = 0
       THEN [completed |-> 0, incomplete |-> 0, progress |-> <<0, 1>>, isComplete |-> FALSE]
       ELSE [completed |-> RoundPercentage(checkedGoals, totalGoals),
             incomplete |-> 100 - RoundPercentage(checkedGoals, totalGoals),
             progress |-> <<checkedGoals, totalGoals>>,
             isComplete |-> IsCompleteOf(checkedGoals, totalGoals)]

\* previousCompletionRef.current[month] || false
WasComplete(ref, month) == month \in DOMAIN ref /\ ref[month]

\* currentCompletion built by the effect
CurrentCompletion(cs, checked) ==
  [m \in MonthSet |-> calculateMonthStatistics(cs, checked, m).isComplete]

\* months for which the effect takes the branch `!wasComplete && isNowComplete`
JustCompleted(cs, checked, ref) ==
  {m \in MonthSet : ~WasComplete(ref, m) /\ CurrentCompletion(cs, checked)[m]}

\* variant: the effect leaves previousCompletionRef as it was
NextCompletionRef_Stale(cs, checked, ref) == ref

\* value previousCompletionRef holds after the effect
NextCompletionRef(cs, checked, ref) == CurrentCompletion(cs, checked)

\* the effect `Detect 100% completion transitions`, run with checked state `checked`,
\* the modal being `open` on month `month` before the pass
CompletionEffect(checked, ref, open, month) ==
  LET edges == JustCompleted(cards, checked, ref)
      last == CHOOSE m \in edges : \A o \in edges : MonthIndex(o) <= MonthIndex(m)
  IN /\ openedInPass' = edges
     /\ celebrationModalOpen' = IF edges # {} THEN TRUE ELSE open
     /\ celebratingMonth' = IF edges # {} THEN last ELSE month
     /\ previousCompletionRef' = NextCompletionRef(cards, checked, ref)

\* setView('summary'): YearlySummaryTable mounts and its effects run once
enterSummary ==
  /\ view = "dashboard"
  /\ view' = "summary"
  /\ checkedState' = EmptyMap
  /\ maybeLaterMonths' = {}
  /\ monthlyMemories' = getAllMonthlyMemories(memoryStore)
  /\ CompletionEffect(EmptyMap, EmptyMap, FALSE, Null)
  /\ UNCHANGED <<cards, editingGoal, editText, monthModalOpen, selectedMonth,
                 pendingGoal, editTimers, now, storedGoals>>
  /\ lastOp' = "setView"
  /\ UNCHANGED <<fault, flowVars>>

\* variant: the other keys are not spread into the new state
ToggleKey_DropOthers(prev, checkboxId) ==
  [k \in {checkboxId} |-> ~Checked(prev, checkboxId)]

\* { ...prev, [checkboxId]: !prev[checkboxId] }
ToggleKey(prev, checkboxId) ==
  [k \in DOMAIN prev \cup {checkboxId} |->
     IF k = checkboxId THEN ~Checked(prev, checkboxId) ELSE prev[k]]

\* handleCheckboxToggle(checkboxId) of a rendered checkbox, then the effect on checkedState
handleCheckboxToggle(cardId, i) ==
  /\ view = "summary"
  /\ i \in 1..Len(cards[cardId])
  /\ cards[cardId][i].completed
  /\ cards[cardId][i].month # Undefined
  /\ LET goal == cards[cardId][i]
         checkboxId == CheckboxId(cardId, goal.id, goal.month)
     IN /\ checkedState' = ToggleKey(checkedState, checkboxId)
        /\ CompletionEffect(checkedState', previousCompletionRef,
                            celebrationModalOpen, celebratingMonth)
  /\ UNCHANGED <<maybeLaterMonths, monthlyMemories, dashVars, flowVars>>

\* onOpenChange(false) of the celebration modal: setCelebrationModalOpen(false)
closeCelebration ==
  /\ view = "summary"
  /\ celebrationModalOpen
  /\ celebrationModalOpen' = FALSE
  /\ UNCHANGED <<checkedState, celebratingMonth, previousCompletionRef, maybeLaterMonths,
                 monthlyMemories, openedInPass>>
  /\ UNCHANGED <<dashVars, flowVars>>

\* page reload: every component state is rebuilt, cards from localStorage
Reload ==
  /\ cards' = LoadCards(storedGoals)
  /\ storedGoals' = PersistEffect(cards')
  /\ editingGoal' = None
  /\ editText' = <<>>
  /\ view' = "dashboard"
  /\ monthModalOpen' = FALSE
  /\ selectedMonth' = Null
  /\ pendingGoal' = None
  /\ editTimers' = <<>>
  /\ checkedState' = EmptyMap
  /\ celebrationModalOpen' = FALSE
  /\ celebratingMonth' = Null
  /\ previousCompletionRef' = EmptyMap
  /\ maybeLaterMonths' = {}
  /\ monthlyMemories' = NoMemories
  /\ openedInPass' = {}
  /\ UNCHANGED now
  /\ lastOp' = "load"
  /\ UNCHANGED <<fault, flowVars>>

(***************************************************************************)
(* MonthlyCompletionCelebrationModal: state, refs, timers, async steps     *)
(***************************************************************************)
\* countdown === null
NoCountdown == -1

\* a timer ref holding null
NullHandle == 0

\* a timer ref holding the handle of a pending timeout or interval
PendingHandle == 1

\* a timer ref still holding the handle of a timeout that has already run
StaleHandle == -1

\* activeFlowIdRef.current === null
NoFlow == 0

\* const sequence = [5, 4, 3, 2, 1, 0]
sequence == <<5, 4, 3, 2, 1, 0>>

\* CameraError.type
ErrorKinds == {"permission", "not-supported", "not-found", "unknown", "timeout"}

\* the message handleTakeSelfie shows for the `error` its closure holds
StartErrorMessage(type) ==
  CASE type = "permission" -> "permission-denied"
    [] type = "not-found" -> "no-camera"
    [] type = "not-supported" -> "not-supported"
    [] OTHER -> "unable-to-start"

\* the modal's props, state, refs, camera hook state, pending timers and
\* suspended async functions, as one record
Modal ==
  [open |-> celebrationModalOpen, month |-> celebratingMonth,
   maybeLaterMonths |-> maybeLaterMonths, monthlyMemories |-> monthlyMemories,
   selectedImage |-> selectedImage, countdown |-> countdown,
   isCameraMode |-> isCameraMode, cameraError |-> cameraError,
   isStartingCamera |-> isStartingCamera, isProcessing |-> isProcessing,
   isSelfieCapture |-> isSelfieCapture, isCapturingPhoto |-> isCapturingPhoto,
   countdownTimerRef |-> countdownTimerRef, retryIntervalRef |-> retryIntervalRef,
   captureTimeoutRef |-> captureTimeoutRef, isCapturingRef |-> isCapturingRef,
   flowRunIdRef |-> flowRunIdRef, activeFlowIdRef |-> activeFlowIdRef,
   isActive |-> isActive, error |-> error,
   timers |-> timers, selfieTasks |-> selfieTasks, captures |-> captures,
   nonNullFlows |-> nonNullFlows,
   showSaveNotification |-> showSaveNotification, pendingCloseRef |-> pendingCloseRef,
   uploads |-> uploads, memoryStore |-> memoryStore]

\* openRef.current, assigned from `open` by an effect of every render that changes it
openRef == celebrationModalOpen

\* isCameraModeRef.current, assigned from isCameraMode in the same way
isCameraModeRef == isCameraMode

\* the values a render of the modal depends on
ReactState(m) ==
  <<m.open, m.month, m.selectedImage, m.countdown, m.isCameraMode, m.cameraError,
    m.isStartingCamera, m.isProcessing, m.isSelfieCapture, m.isCapturingPhoto,
    m.isActive, m.error, m.showSaveNotification, m.monthlyMemories>>

\* the ref that a callback's handle is assigned to, if any
RefOf(kind) ==
  CASE kind \in {"runCountdown", "countdownDone"} -> "countdownTimerRef"
    [] kind = "retryInterval" -> "retryIntervalRef"
    [] kind = "captureTimeout" -> "captureTimeoutRef"
    [] OTHER -> "none"

\* a pending callback: which one, its captured index or flow id, the isActive of
\* the render its teardownCaptureFlow closes over, and whether the ref of its
\* kind holds its handle (handles are only compared for identity)
TimerRec(kind, arg, active, held) ==
  [kind |-> kind, arg |-> arg, isActive |-> active, held |-> held]

\* the pending callbacks whose handle `ref` holds (at most one)
HeldBy(tm, ref) ==
  [t \in {x \in DOMAIN tm : x.held /\ RefOf(x.kind) = ref} |-> tm[t]]

\* the same callbacks once `ref` holds another handle: still pending, cleared by nobody
Orphaned(tm, ref) ==
  LET held == DOMAIN HeldBy(tm, ref)
  IN [t \in {[x EXCEPT !.held = FALSE] : x \in held} |->
        tm[[t EXCEPT !.held = TRUE]]]

\* setTimeout(callback) / setInterval(callback) whose handle is not kept
AddTimer(tm, rec) == tm (+) SetToBag({rec})

\* ref.current = setTimeout(...) / setInterval(...)
SetTimer(m, ref, rec) ==
  [m EXCEPT ![ref] = PendingHandle,
            !.timers = ((@ (-) HeldBy(@, ref)) (+) Orphaned(@, ref))
                         (+) SetToBag({[rec EXCEPT !.held = TRUE]})]

\* if (ref.current) { clearTimeout(ref.current); ref.current = null; }
ClearTimer(m, ref) ==
  [m EXCEPT ![ref] = NullHandle, !.timers = @ (-) HeldBy(@, ref)]

\* a timeout runs: it is pending no longer; a ref that holds its handle keeps it
Expire(m, t) ==
  [m EXCEPT !.timers = @ (-) SetToBag({t}),
            !.countdownTimerRef =
               IF t.held /\ RefOf(t.kind) = "countdownTimerRef" THEN StaleHandle ELSE @,
            !.captureTimeoutRef =
               IF t.held /\ RefOf(t.kind) = "captureTimeoutRef" THEN StaleHandle ELSE @]

\* teardownCaptureFlow, of a render in which the camera hook's isActive was `active`
teardownCaptureFlow(m, active) ==
  LET cleared == ClearTimer(ClearTimer(ClearTimer(m, "countdownTimerRef"),
                                       "retryIntervalRef"), "captureTimeoutRef")
  IN [cleared EXCEPT !.isCapturingRef = FALSE, !.isCapturingPhoto = FALSE,
                     !.countdown = NoCountdown, !.isStartingCamera = FALSE,
                     !.isProcessing = FALSE,
                     !.isActive = IF active THEN FALSE ELSE @,
                     !.activeFlowIdRef = NoFlow]

\* the effect `Clean up camera and reset state when modal closes`, body of `if (!open)`,
\* and the effect that clears pendingCloseRef when the modal is closed
CloseEffect(m) ==
  [teardownCaptureFlow(m, m.isActive) EXCEPT
     !.selectedImage = Null, !.isCameraMode = FALSE, !.cameraError = Null,
     !.isStartingCamera = FALSE, !.isProcessing = FALSE, !.isSelfieCapture = FALSE,
     !.showSaveNotification = FALSE, !.pendingCloseRef = FALSE]

\* the render that follows a handler or callback, and the effects of that render:
\* the close effect when one of open, isActive, selectedImage changed
Commit(m) ==
  LET r == IF /\ ~m.open
              /\ <<m.open, m.isActive, m.selectedImage>>
                   # <<celebrationModalOpen, isActive, selectedImage>>
             THEN CloseEffect(m) ELSE m
  IN /\ celebrationModalOpen' = r.open
     /\ celebratingMonth' = r.month
     /\ maybeLaterMonths' = r.maybeLaterMonths
     /\ monthlyMemories' = r.monthlyMemories
     /\ selectedImage' = r.selectedImage
     /\ countdown' = r.countdown
     /\ isCameraMode' = r.isCameraMode
     /\ cameraError' = r.cameraError
     /\ isStartingCamera' = r.isStartingCamera
     /\ isProcessing' = r.isProcessing
     /\ isSelfieCapture' = r.isSelfieCapture
     /\ isCapturingPhoto' = r.isCapturingPhoto
     /\ countdownTimerRef' = r.countdownTimerRef
     /\ retryIntervalRef' = r.retryIntervalRef
     /\ captureTimeoutRef' = r.captureTimeoutRef
     /\ isCapturingRef' = r.isCapturingRef
     /\ flowRunIdRef' = r.flowRunIdRef
     /\ activeFlowIdRef' = r.activeFlowIdRef
     /\ isActive' = r.isActive
     /\ error' = r.error
     /\ timers' = r.timers
     /\ selfieTasks' = r.selfieTasks
     /\ captures' = r.captures
     /\ nonNullFlows' = r.nonNullFlows
     /\ showSaveNotification' = r.showSaveNotification
     /\ pendingCloseRef' = r.pendingCloseRef
     /\ uploads' = r.uploads
     /\ memoryStore' = r.memoryStore
     /\ renderedFlowActive' = IF ReactState(r) # ReactState(Modal)
                                THEN r.activeFlowIdRef # NoFlow
                                ELSE renderedFlowActive
     /\ UNCHANGED <<dashVars, checkedState, previousCompletionRef, openedInPass,
                    isSupported>>

\* isInSelfiePreview
isInSelfiePreview == isSelfieCapture /\ selectedImage # Null /\ ~isCameraMode

\* `disabled` of the Take Selfie button, as last rendered
TakeSelfieDisabled ==
  \/ isStartingCamera
  \/ renderedFlowActive
  \/ isProcessing
  \/ countdown # NoCountdown
  \/ isCapturingPhoto

\* runCountdown with its captured index at `index`
runCountdown(m, index, active) ==
  IF index <= Len(sequence)
    THEN LET shown == [m EXCEPT !.countdown = sequence[index]]
         IN IF sequence[index] = 0
              THEN SetTimer(shown, "countdownTimerRef", TimerRec("countdownDone", 0, active, TRUE))
              ELSE SetTimer(shown, "countdownTimerRef",
                            TimerRec("runCountdown", index + 1, active, TRUE))
    ELSE m

\* startCountdown
startCountdown(m, active) == runCountdown(m, 1, active)

\* handleCapture after `await attemptCapture()` returned false on the first attempt
StartRetryLoop(m, flow, active) ==
  IF m.activeFlowIdRef = flow
    THEN SetTimer(m, "retryIntervalRef", TimerRec("retryInterval", flow, active, TRUE))
    ELSE m

\* the guards of attemptCapture: active flow, refs, video element with dimensions
CanAttempt(m, flow, ready) ==
  /\ m.activeFlowIdRef = flow
  /\ isCameraModeRef
  /\ openRef
  /\ m.isActive
  /\ ready

\* a suspended attemptCapture: its flow, whether handleCapture awaits it (first
\* attempt) or the retry interval, the await it is suspended at, and the isActive
\* its teardownCaptureFlow closes over (FALSE once no teardown is left to run)
CaptureTask(flow, first, pc, active) ==
  [flow |-> flow, first |-> first, pc |-> pc, isActive |-> active]

\* attemptCapture up to `await capturePhoto()`, and its caller when it returns false
attemptCapture(m, flow, first, active, ready) ==
  IF CanAttempt(m, flow, ready)
    THEN [m EXCEPT !.captures = @ (+) SetToBag({CaptureTask(flow, first, "capturePhoto", active)})]
    ELSE IF first THEN StartRetryLoop(m, flow, active) ELSE m

\* handleCapture up to its first await
handleCapture(m, active, ready) ==
  IF m.isCapturingRef
    THEN m
    ELSE LET currentFlowId == m.flowRunIdRef + 1
             started == [ClearTimer(m, "countdownTimerRef") EXCEPT
                           !.flowRunIdRef = currentFlowId,
                           !.activeFlowIdRef = currentFlowId,
                           !.isCapturingRef = TRUE,
                           !.isCapturingPhoto = TRUE]
             timed == SetTimer(started, "captureTimeoutRef",
                               TimerRec("captureTimeout", currentFlowId, active, TRUE))
         IN attemptCapture(timed, currentFlowId, TRUE, active, ready)

\* a suspended handleTakeSelfie: the await it is suspended at, and the isActive and
\* error of the render it closes over (error null once no step is left to read it)
SelfieTask(pc, active, err) == [pc |-> pc, isActive |-> active, error |-> err]

\* handleTakeSelfie from its guard to `await startCamera()`
StartSelfie(m) ==
  LET torn == teardownCaptureFlow([m EXCEPT !.cameraError = Null], isActive)
      starting == [torn EXCEPT !.isStartingCamera = TRUE, !.isCapturingRef = FALSE,
                               !.isCameraMode = TRUE]
  IN IF ~isSupported
       THEN [starting EXCEPT !.cameraError = "not-supported",
                             !.isStartingCamera = FALSE, !.isCameraMode = FALSE]
       ELSE [starting EXCEPT
               !.selfieTasks = @ (+) SetToBag({SelfieTask("startCamera", isActive, error)})]

\* click on Take Selfie & Share
handleTakeSelfie ==
  /\ celebrationModalOpen
  /\ ~isInSelfiePreview
  /\ ~TakeSelfieDisabled
  /\ activeFlowIdRef = NoFlow
  /\ ~isCapturingRef
  /\ Commit(StartSelfie(Modal))

\* click on Retake
handleRetake ==
  /\ celebrationModalOpen
  /\ isInSelfiePreview
  /\ ~isProcessing
  /\ activeFlowIdRef = NoFlow
  /\ ~isCapturingRef
  /\ Commit(StartSelfie(teardownCaptureFlow(
              [Modal EXCEPT !.selectedImage = Null, !.isSelfieCapture = FALSE,
                            !.cameraError = Null], isActive)))

\* handleTakeSelfie when the preview is not ready
PreviewFailed(m, task) ==
  teardownCaptureFlow([m EXCEPT !.isStartingCamera = FALSE,
                                !.cameraError = "preview-failed",
                                !.isCameraMode = FALSE], task.isActive)

\* `await startCamera()` settles
startCameraSettles(task, success, kind) ==
  /\ BagIn(task, selfieTasks)
  /\ task.pc = "startCamera"
  /\ LET rest == [Modal EXCEPT !.selfieTasks = @ (-) SetToBag({task})]
         started == [rest EXCEPT !.isActive = TRUE, !.error = Null, !.cameraError = Null]
     IN IF success
          THEN IF isCameraMode
                 THEN Commit([started EXCEPT !.selfieTasks = @ (+)
                                SetToBag({SelfieTask("waitForPreviewReady", task.isActive, Null)})])
                 ELSE Commit(PreviewFailed(started, task))
          ELSE Commit([rest EXCEPT !.error = kind,
                                   !.cameraError = StartErrorMessage(task.error),
                                   !.isCameraMode = FALSE,
                                   !.isStartingCamera = FALSE])

\* `await waitForPreviewReady()` settles
waitForPreviewReadySettles(task, previewReady) ==
  /\ BagIn(task, selfieTasks)
  /\ task.pc = "waitForPreviewReady"
  /\ LET rest == [Modal EXCEPT !.selfieTasks = @ (-) SetToBag({task}),
                               !.isStartingCamera = FALSE]
     IN IF previewReady /\ isCameraMode /\ isActive
          THEN Commit(startCountdown(rest, task.isActive))
          ELSE Commit(PreviewFailed(rest, task))

\* the timeout of runCountdown runs
runCountdownTimer(t) ==
  /\ BagIn(t, timers)
  /\ t.kind = "runCountdown"
  /\ Commit(runCountdown(Expire(Modal, t), t.arg, t.isActive))

\* the 300 ms timeout set when 0 is shown runs
countdownDoneTimer(t) ==
  /\ BagIn(t, timers)
  /\ t.kind = "countdownDone"
  /\ Commit([Expire(Modal, t) EXCEPT
               !.countdown = NoCountdown,
               !.timers = AddTimer(@, TimerRec("captureDelay", 0, t.isActive, FALSE))])

\* the 150 ms timeout before the first capture attempt runs: handleCapture()
captureDelayTimer(t, ready) ==
  /\ BagIn(t, timers)
  /\ t.kind = "captureDelay"
  /\ Commit(handleCapture(Expire(Modal, t), t.isActive, ready))

\* a tick of the retry interval
retryIntervalTimer(t, ready) ==
  /\ BagIn(t, timers)
  /\ t.kind = "retryInterval"
  /\ IF activeFlowIdRef # t.arg
       THEN Commit(ClearTimer(Modal, "retryIntervalRef"))
       ELSE Commit(attemptCapture(Modal, t.arg, FALSE, t.isActive, ready))

\* the capture timeout runs
captureTimeoutTimer(t) ==
  /\ BagIn(t, timers)
  /\ t.kind = "captureTimeout"
  /\ IF activeFlowIdRef # t.arg \/ ~openRef \/ ~isCameraModeRef
       THEN Commit(Expire(Modal, t))
       ELSE Commit([teardownCaptureFlow(ClearTimer(Expire(Modal, t), "retryIntervalRef"),
                                        t.isActive)
                      EXCEPT !.isCameraMode = FALSE, !.cameraError = "timed-out"])

\* the timeout of the successful capture runs: stopCamera()
stopCameraTimer(t) ==
  /\ BagIn(t, timers)
  /\ t.kind = "stopCamera"
  /\ Commit([Expire(Modal, t) EXCEPT !.isActive = FALSE])

\* `finally` of the processing block, then the caller of attemptCapture on `true`
FinishProcessing(m, task) ==
  ClearTimer([m EXCEPT !.isProcessing = FALSE, !.activeFlowIdRef = NoFlow],
             IF task.first THEN "captureTimeoutRef" ELSE "retryIntervalRef")

\* `await capturePhoto()` settles: null, a file, or a throw
capturePhotoSettles(task, result) ==
  /\ BagIn(task, captures)
  /\ task.pc = "capturePhoto"
  /\ LET rest == [Modal EXCEPT !.captures = @ (-) SetToBag({task})]
         cleared == ClearTimer(ClearTimer(rest, "retryIntervalRef"), "captureTimeoutRef")
     IN CASE result = "null" ->
               Commit(IF task.first THEN StartRetryLoop(rest, task.flow, task.isActive)
                                    ELSE rest)
          [] result = "file" ->
               Commit([cleared EXCEPT
                         !.isCapturingPhoto = FALSE,
                         !.isCapturingRef = FALSE,
                         !.timers = AddTimer(@, TimerRec("stopCamera", 0, FALSE, FALSE)),
                         !.isProcessing = TRUE,
                         !.captures = @ (+) SetToBag({CaptureTask(task.flow, task.first, "fileToDataUrl", FALSE)}),
                         !.nonNullFlows = @ \cup {task.flow}])
          [] result = "throw" ->
               Commit([teardownCaptureFlow(cleared, task.isActive) EXCEPT
                         !.isCameraMode = FALSE,
                         !.cameraError = "capture-failed",
                         !.nonNullFlows = @ \cup {task.flow}])

\* `await fileToDataUrl(photoFile)` settles
fileToDataUrlSettles(task, ok) ==
  /\ BagIn(task, captures)
  /\ task.pc = "fileToDataUrl"
  /\ LET rest == [Modal EXCEPT !.captures = @ (-) SetToBag({task})]
     IN IF ok
          THEN Commit([rest EXCEPT !.captures = @ (+)
                         SetToBag({[task EXCEPT !.pc = "createCelebrationComposite"]})])
          ELSE Commit(FinishProcessing([rest EXCEPT !.isCameraMode = FALSE,
                                                    !.cameraError = "process-failed"], task))

\* `await createCelebrationComposite(...)` settles
createCelebrationCompositeSettles(task, ok) ==
  /\ BagIn(task, captures)
  /\ task.pc = "createCelebrationComposite"
  /\ LET rest == [Modal EXCEPT !.captures = @ (-) SetToBag({task})]
     IN Commit(FinishProcessing(
                 [rest EXCEPT !.selectedImage = IF ok THEN "composite" ELSE "raw",
                              !.isCameraMode = FALSE,
                              !.isSelfieCapture = TRUE,
                              !.cameraError = Null], task))

\* click on the close button
handleClose ==
  /\ celebrationModalOpen
  /\ Commit([teardownCaptureFlow(Modal, isActive) EXCEPT !.pendingCloseRef = FALSE,
                                                        !.open = FALSE])

\* click on Maybe Later: teardown, onMaybeLater(month) = handleMaybeLater(month) of
\* YearlySummaryTable, onOpenChange(false)
handleMaybeLater ==
  /\ celebrationModalOpen
  /\ ~isInSelfiePreview
  /\ ~isProcessing
  /\ Commit([teardownCaptureFlow(Modal, isActive) EXCEPT
               !.pendingCloseRef = FALSE,
               !.maybeLaterMonths = @ \cup {celebratingMonth},
               !.open = FALSE])

\* the close effect runs again while the modal is closed (stopCamera, a dependency
\* of the effect, is a new function whenever the camera hook returns a new object)
\* click on Save to Memories: saveMonthlyMemory, onMemorySaved (the summary reads
\* the memories again), the saved notice, pendingCloseRef
handleSaveToMemories(setItemThrows) ==
  /\ celebrationModalOpen
  /\ isInSelfiePreview
  /\ ~isProcessing
  /\ LET saved == saveMonthlyMemory(memoryStore, celebratingMonth, selectedImage,
                                    setItemThrows)
     IN Commit([Modal EXCEPT !.memoryStore = saved,
                             !.monthlyMemories = getAllMonthlyMemories(saved),
                             !.showSaveNotification = TRUE,
                             !.pendingCloseRef = TRUE])

\* onDismiss of the saved notice, by a click or after its duration
handleNotificationDismiss ==
  /\ showSaveNotification
  /\ Commit([Modal EXCEPT !.showSaveNotification = FALSE,
                          !.pendingCloseRef = IF pendingCloseRef /\ openRef THEN FALSE ELSE @,
                          !.open = IF pendingCloseRef /\ openRef THEN FALSE ELSE @])

\* a suspended handleFileChange: the await it is suspended at, the month of the
\* render it closes over, and whether the components of that render are mounted
UploadTask(pc, month) == [pc |-> pc, month |-> month, mounted |-> TRUE]

\* a file is chosen through Upload Photo Instead: handleFileChange up to
\* `await fileToDataUrl(file)`
handleFileChange ==
  /\ celebrationModalOpen
  /\ ~isInSelfiePreview
  /\ ~isProcessing
  /\ Commit([Modal EXCEPT !.isProcessing = TRUE,
                          !.uploads = @ (+) SetToBag({UploadTask("fileToDataUrl",
                                                                 celebratingMonth)})])

\* `catch` and `finally` of handleFileChange
UploadFailed(m) == [m EXCEPT !.cameraError = "process-failed", !.isProcessing = FALSE]

\* the same for a task of an unmounted modal: its setters change nothing
UploadFailedOf(task, m) == IF task.mounted THEN UploadFailed(m) ELSE m

\* `await fileToDataUrl(file)` of handleFileChange settles
uploadFileToDataUrlSettles(task, ok) ==
  /\ BagIn(task, uploads)
  /\ task.pc = "fileToDataUrl"
  /\ LET rest == [Modal EXCEPT !.uploads = @ (-) SetToBag({task})]
     IN IF ok
          THEN Commit([rest EXCEPT !.uploads = @ (+)
                         SetToBag({[task EXCEPT !.pc = "createCelebrationComposite"]})])
          ELSE Commit(UploadFailedOf(task, rest))

\* `await createCelebrationComposite(...)` of handleFileChange settles: on success
\* the image is shown, saved, the summary told, and the modal closed; of a task
\* of an unmounted modal only the write to localStorage has an effect
uploadCompositeSettles(task, ok, setItemThrows) ==
  /\ BagIn(task, uploads)
  /\ task.pc = "createCelebrationComposite"
  /\ LET rest == [Modal EXCEPT !.uploads = @ (-) SetToBag({task})]
         saved == saveMonthlyMemory(memoryStore, task.month, "uploaded", setItemThrows)
     IN IF ok
          THEN IF task.mounted
                 THEN Commit([rest EXCEPT
                         !.selectedImage = "uploaded",
                         !.isSelfieCapture = TRUE,
                         !.cameraError = Null,
                         !.memoryStore = saved,
                         !.monthlyMemories = IF view = "summary"
                                               THEN getAllMonthlyMemories(saved) ELSE @,
                         !.open = FALSE,
                         !.isProcessing = FALSE])
                 ELSE Commit([rest EXCEPT !.memoryStore = saved])
          ELSE Commit(UploadFailedOf(task, rest))

closeEffect ==
  /\ ~celebrationModalOpen
  /\ CloseEffect(Modal) # Modal
  /\ Commit(CloseEffect(Modal))

\* the summary opens the celebration: a completion edge or a placeholder click
openCelebration(month) ==
  /\ view = "summary"
  /\ ~celebrationModalOpen
  /\ Commit([Modal EXCEPT !.open = TRUE, !.month = month])

\* variant: every month's placeholder is rendered
handlePlaceholderClick_AnyMonth(month) ==
  /\ openCelebration(month)

\* const memoryImage = monthlyMemories.get(month), as a condition
HasMemoryImage(month) == month \in DOMAIN monthlyMemories

\* const shouldShowPlaceholder = !memoryImage && maybeLaterMonths.has(month)
shouldShowPlaceholder(month) == ~HasMemoryImage(month) /\ month \in maybeLaterMonths

\* handlePlaceholderClick(month) of a rendered placeholder
handlePlaceholderClick(month) ==
  /\ shouldShowPlaceholder(month)
  /\ openCelebration(month)

\* the modal as mounted: useState and useRef initial values, nothing pending
ModalMounted ==
  /\ selectedImage = Null
  /\ countdown = NoCountdown
  /\ isCameraMode = FALSE
  /\ cameraError = Null
  /\ isStartingCamera = FALSE
  /\ isProcessing = FALSE
  /\ isSelfieCapture = FALSE
  /\ isCapturingPhoto = FALSE
  /\ countdownTimerRef = NullHandle
  /\ retryIntervalRef = NullHandle
  /\ captureTimeoutRef = NullHandle
  /\ isCapturingRef = FALSE
  /\ flowRunIdRef = 0
  /\ activeFlowIdRef = NoFlow
  /\ renderedFlowActive = FALSE
  /\ isActive = FALSE
  /\ error = Null
  /\ timers = EmptyBag
  /\ selfieTasks = EmptyBag
  /\ captures = EmptyBag
  /\ nonNullFlows = {}
  /\ showSaveNotification = FALSE
  /\ pendingCloseRef = FALSE
  /\ uploads = EmptyBag
  /\ memoryStore = EmptyStore

\* the suspended handleFileChange calls of a modal that unmounts: they go on and
\* call the setters and callbacks of the unmounted components
Unmounted(tasks) ==
  LET gone == {[t EXCEPT !.mounted = FALSE] : t \in BagToSet(tasks)}
  IN IF tasks = EmptyBag THEN EmptyBag
     ELSE [g \in gone |->
             CopiesIn([g EXCEPT !.mounted = TRUE], tasks) + CopiesIn(g, tasks)]

\* onBackToDashboard = setView('dashboard'): YearlySummaryTable unmounts, and its
\* celebration modal with it, so that the next mount starts from the initial
\* values of their state and refs. The unmount is followed when no capture flow
\* of the modal is suspended and none of its timers is pending.
onBackToDashboard ==
  /\ view = "summary"
  /\ timers = EmptyBag
  /\ selfieTasks = EmptyBag
  /\ captures = EmptyBag
  /\ view' = "dashboard"
  /\ checkedState' = EmptyMap
  /\ celebrationModalOpen' = FALSE
  /\ celebratingMonth' = Null
  /\ previousCompletionRef' = EmptyMap
  /\ maybeLaterMonths' = {}
  /\ monthlyMemories' = NoMemories
  /\ openedInPass' = {}
  /\ UNCHANGED <<cards, editingGoal, editText, monthModalOpen, selectedMonth,
                 pendingGoal, editTimers, now, storedGoals>>
  /\ lastOp' = "setView"
  /\ selectedImage' = Null
  /\ countdown' = NoCountdown
  /\ isCameraMode' = FALSE
  /\ cameraError' = Null
  /\ isStartingCamera' = FALSE
  /\ isProcessing' = FALSE
  /\ isSelfieCapture' = FALSE
  /\ isCapturingPhoto' = FALSE
  /\ countdownTimerRef' = NullHandle
  /\ retryIntervalRef' = NullHandle
  /\ captureTimeoutRef' = NullHandle
  /\ isCapturingRef' = FALSE
  /\ flowRunIdRef' = 0
  /\ activeFlowIdRef' = NoFlow
  /\ renderedFlowActive' = FALSE
  /\ isActive' = FALSE
  /\ error' = Null
  /\ nonNullFlows' = {}
  /\ showSaveNotification' = FALSE
  /\ pendingCloseRef' = FALSE
  /\ uploads' = Unmounted(uploads)
  /\ UNCHANGED <<fault, isSupported, timers, selfieTasks, captures, memoryStore>>

(***************************************************************************)
(* Specification of the dashboard and the summary view                     *)
(***************************************************************************)
Init ==
  /\ cards = LoadCards(None)
  /\ storedGoals = PersistEffect(cards)
  /\ editingGoal = None
  /\ editText = <<>>
  /\ view = "dashboard"
  /\ monthModalOpen = FALSE
  /\ selectedMonth = Null
  /\ pendingGoal = None
  /\ editTimers = <<>>
  /\ now = 0
  /\ lastOp = "load"
  /\ fault = NoFault
  /\ checkedState = EmptyMap
  /\ celebrationModalOpen = FALSE
  /\ celebratingMonth = Null
  /\ previousCompletionRef = EmptyMap
  /\ maybeLaterMonths = {}
  /\ monthlyMemories = NoMemories
  /\ openedInPass = {}
  /\ isSupported = TRUE
  /\ ModalMounted

Next ==
  \/ \E c \in CardIds : \E i \in 1..MaxGoals :
       /\ i <= Len(cards[c])
       /\ \/ toggleGoal(c, cards[c][i].id)
          \/ deleteGoal(c, cards[c][i].id)
  \/ \E m \in MonthSet : onMonthSelect(m)
  \/ handleMonthConfirm
  \/ handleMonthCancel
  \/ \E c \in CardIds : addGoal(c)
  \/ addGoalTimer
  \/ Tick
  \/ enterSummary
  \/ onBackToDashboard
  \/ Reload

Spec == Init /\ [][Next]_vars

(***************************************************************************)
(* Specification of the summary view                                       *)
(***************************************************************************)
\* states of one goal: completed or not, with any month or none
GoalStates(goalId, text) ==
  {[id |-> goalId, text |-> text, completed |-> b, month |-> m] :
     b \in BOOLEAN, m \in MonthSet \cup {Undefined}}

\* collections the dashboard holds after one addGoal("career") at clock 0 and any
\* sequence of toggles and month prompts
SummaryCards ==
  {[c \in CardIds |-> IF c = "career" THEN <<g1, g2>> ELSE <<g3>>] :
     g1 \in GoalStates("c1", <<"P">>),
     g2 \in GoalStates(NewGoalId("career", 0), NewGoalText),
     g3 \in GoalStates("h3", <<"D">>)}

SummaryInit ==
  /\ cards \in SummaryCards
  /\ storedGoals = PersistEffect(cards)
  /\ editingGoal = None
  /\ editText = <<>>
  /\ view = "dashboard"
  /\ monthModalOpen = FALSE
  /\ selectedMonth = Null
  /\ pendingGoal = None
  /\ editTimers = <<>>
  /\ now = 0
  /\ lastOp = "load"
  /\ fault = NoFault
  /\ checkedState = EmptyMap
  /\ celebrationModalOpen = FALSE
  /\ celebratingMonth = Null
  /\ previousCompletionRef = EmptyMap
  /\ maybeLaterMonths = {}
  /\ monthlyMemories = NoMemories
  /\ openedInPass = {}
  /\ isSupported = TRUE
  /\ ModalMounted

SummaryNext ==
  \/ enterSummary
  \/ onBackToDashboard
  \/ \E c \in CardIds : \E i \in 1..Len(cards[c]) : handleCheckboxToggle(c, i)
  \/ closeCelebration
  \/ handleMaybeLater
  \/ \E m \in MonthSet : handlePlaceholderClick(m)
  \/ Reload

SummarySpec == SummaryInit /\ [][SummaryNext]_vars

(***************************************************************************)
(* Specification of toggling and the month prompt                          *)
(***************************************************************************)
\* collections the dashboard holds after adds to "career" at clock 0, deletes, and
\* any sequence of toggles and month prompts: distinct ids, or twice the same id
PromptCards ==
  {[c \in CardIds |-> IF c = "career" THEN <<g1, g2>> ELSE <<g3>>] :
     g1 \in GoalStates("c1", <<"P">>) \cup GoalStates(NewGoalId("career", 0), NewGoalText),
     g2 \in GoalStates(NewGoalId("career", 0), NewGoalText),
     g3 \in GoalStates("h3", <<"D">>)}

PromptInit ==
  /\ cards \in PromptCards
  /\ storedGoals = PersistEffect(cards)
  /\ editingGoal = None
  /\ editText = <<>>
  /\ view = "dashboard"
  /\ monthModalOpen = FALSE
  /\ selectedMonth = Null
  /\ pendingGoal = None
  /\ editTimers = <<>>
  /\ now = 0
  /\ lastOp = "load"
  /\ fault = NoFault
  /\ checkedState = EmptyMap
  /\ celebrationModalOpen = FALSE
  /\ celebratingMonth = Null
  /\ previousCompletionRef = EmptyMap
  /\ maybeLaterMonths = {}
  /\ monthlyMemories = NoMemories
  /\ openedInPass = {}
  /\ isSupported = TRUE
  /\ ModalMounted

PromptToggle == \E c \in CardIds : \E i \in 1..Len(cards[c]) : toggleGoal(c, cards[c][i].id)

PromptSelect == \E m \in MonthSet : onMonthSelect(m)

PromptNext ==
  \/ PromptToggle
  \/ PromptSelect
  \/ handleMonthConfirm
  \/ handleMonthCancel

PromptSpec == PromptInit /\ [][PromptNext]_vars

(***************************************************************************)
(* Specification of the celebration modal and its capture flow             *)
(***************************************************************************)
\* the summary view over a collection with one goal completed in the first month,
\* the celebration not yet opened; the device supports a camera or does not
FlowInit ==
  /\ cards = [c \in CardIds |->
                IF c = "career" THEN initialCards[c]
                ELSE << [initialCards[c][1] EXCEPT !.month = MONTHS[1]] >>]
  /\ storedGoals = PersistEffect(cards)
  /\ editingGoal = None
  /\ editText = <<>>
  /\ view = "summary"
  /\ monthModalOpen = FALSE
  /\ selectedMonth = Null
  /\ pendingGoal = None
  /\ editTimers = <<>>
  /\ now = 0
  /\ lastOp = "setView"
  /\ fault = NoFault
  /\ checkedState = EmptyMap
  /\ celebrationModalOpen = FALSE
  /\ celebratingMonth = Null
  /\ previousCompletionRef = CurrentCompletion(cards, checkedState)
  /\ maybeLaterMonths = {MONTHS[1]}
  /\ monthlyMemories = NoMemories
  /\ openedInPass = {}
  /\ isSupported \in BOOLEAN
  /\ ModalMounted

SelfieTasks == BagToSet(selfieTasks)

CaptureTasks == BagToSet(captures)

Timers == BagToSet(timers)

\* the explored part of the modal's state space: flow ids handed out, suspended
\* handleTakeSelfie calls, suspended attemptCapture calls, pending timers
Within(flows, tasks, inFlight, pending) ==
  /\ flowRunIdRef <= flows
  /\ BagCardinality(selfieTasks) <= tasks
  /\ BagCardinality(captures) <= inFlight
  /\ BagCardinality(timers) <= pending

FlowBounded == Within(MaxFlows, MaxSelfieTasks, MaxInFlight, MaxPending)

OpenCelebration == openCelebration(MONTHS[1])

TakeSelfie == handleTakeSelfie /\ FlowBounded'

Retake == handleRetake /\ FlowBounded'

\* the kinds a failed start is explored with: one that has a message of its own
\* and one that has not
StartFailureKinds == {"permission", "timeout"}

StartCameraSettles ==
  \E task \in SelfieTasks :
    \/ startCameraSettles(task, TRUE, Null)
    \/ \E kind \in StartFailureKinds : startCameraSettles(task, FALSE, kind)

WaitForPreviewReadySettles ==
  \E task \in SelfieTasks : \E previewReady \in BOOLEAN :
    waitForPreviewReadySettles(task, previewReady) /\ FlowBounded'

RunCountdownTimer == \E t \in Timers : runCountdownTimer(t)

CountdownDoneTimer == \E t \in Timers : countdownDoneTimer(t)

CaptureDelayTimer ==
  \E t \in Timers : \E ready \in BOOLEAN : captureDelayTimer(t, ready) /\ FlowBounded'

RetryIntervalTimer ==
  \E t \in Timers : \E ready \in BOOLEAN : retryIntervalTimer(t, ready) /\ FlowBounded'

CaptureTimeoutTimer == \E t \in Timers : captureTimeoutTimer(t)

StopCameraTimer == \E t \in Timers : stopCameraTimer(t)

CapturePhotoSettles ==
  \E task \in CaptureTasks : \E result \in {"null", "file", "throw"} :
    capturePhotoSettles(task, result) /\ FlowBounded'

FileToDataUrlSettles ==
  \E task \in CaptureTasks : \E ok \in BOOLEAN : fileToDataUrlSettles(task, ok)

CreateCelebrationCompositeSettles ==
  \E task \in CaptureTasks : \E ok \in BOOLEAN : createCelebrationCompositeSettles(task, ok)

FlowNext ==
  \/ OpenCelebration
  \/ TakeSelfie
  \/ Retake
  \/ StartCameraSettles
  \/ WaitForPreviewReadySettles
  \/ RunCountdownTimer
  \/ CountdownDoneTimer
  \/ CaptureDelayTimer
  \/ RetryIntervalTimer
  \/ CaptureTimeoutTimer
  \/ StopCameraTimer
  \/ CapturePhotoSettles
  \/ FileToDataUrlSettles
  \/ CreateCelebrationCompositeSettles
  \/ handleClose
  \/ handleMaybeLater
  \/ closeEffect

FlowSpec == FlowInit /\ [][FlowNext]_vars

(***************************************************************************)
(* Specification of overlapping capture flows                              *)
(***************************************************************************)
\* the modal on a device whose camera starts and shows its preview whenever asked,
\* under a user who only ever clicks Take Selfie: three flow ids, two suspended
\* attemptCapture calls
OverlapInit ==
  /\ FlowInit
  /\ isSupported

OverlapBounded == Within(OverlapFlows, MaxSelfieTasks, OverlapInFlight, MaxPending)

OverlapTakeSelfie == handleTakeSelfie /\ OverlapBounded'

OverlapStartCameraSettles ==
  \E task \in SelfieTasks : startCameraSettles(task, TRUE, Null)

OverlapWaitForPreviewReadySettles ==
  \E task \in SelfieTasks : waitForPreviewReadySettles(task, TRUE) /\ OverlapBounded'

OverlapCaptureDelayTimer ==
  \E t \in Timers : \E ready \in BOOLEAN : captureDelayTimer(t, ready) /\ OverlapBounded'

OverlapRetryIntervalTimer ==
  \E t \in Timers : \E ready \in BOOLEAN : retryIntervalTimer(t, ready) /\ OverlapBounded'

OverlapCapturePhotoSettles ==
  \E task \in CaptureTasks : \E result \in {"null", "file"} :
    capturePhotoSettles(task, result) /\ OverlapBounded'

OverlapNext ==
  \/ OpenCelebration
  \/ OverlapTakeSelfie
  \/ OverlapStartCameraSettles
  \/ OverlapWaitForPreviewReadySettles
  \/ RunCountdownTimer
  \/ CountdownDoneTimer
  \/ OverlapCaptureDelayTimer
  \/ OverlapRetryIntervalTimer
  \/ CaptureTimeoutTimer
  \/ StopCameraTimer
  \/ OverlapCapturePhotoSettles

OverlapSpec == OverlapInit /\ [][OverlapNext]_vars

(***************************************************************************)
(* Specification of the monthly statistics                                 *)
(***************************************************************************)
\* the summary view, just mounted, over a collection of up to MaxEligible added
\* goals, all completed in the first month
StatsInit ==
  /\ \E total \in 1..MaxEligible :
       cards = [c \in CardIds |->
                  IF c = "career"
                    THEN [i \in 1..total |->
                            [id |-> NewGoalId(c, i), text |-> NewGoalText,
                             completed |-> TRUE, month |-> MONTHS[1]]]
                    ELSE <<>>]
  /\ storedGoals = PersistEffect(cards)
  /\ editingGoal = None
  /\ editText = <<>>
  /\ view = "summary"
  /\ monthModalOpen = FALSE
  /\ selectedMonth = Null
  /\ pendingGoal = None
  /\ editTimers = <<>>
  /\ now = 0
  /\ lastOp = "setView"
  /\ fault = NoFault
  /\ checkedState = EmptyMap
  /\ celebrationModalOpen = FALSE
  /\ celebratingMonth = Null
  /\ previousCompletionRef = CurrentCompletion(cards, checkedState)
  /\ maybeLaterMonths = {}
  /\ monthlyMemories = NoMemories
  /\ openedInPass = {}
  /\ isSupported = TRUE
  /\ ModalMounted

\* the checkbox of goal i of "career" is checked
StatsChecked(i) ==
  Checked(checkedState, CheckboxId("career", cards["career"][i].id, cards["career"][i].month))

\* the user checks the first unchecked box
StatsCheck ==
  \E i \in 1..Len(cards["career"]) :
    /\ ~StatsChecked(i)
    /\ \A j \in 1..(i - 1) : StatsChecked(j)
    /\ handleCheckboxToggle("career", i)

\* the user unchecks the last checked box
StatsUncheck ==
  \E i \in 1..Len(cards["career"]) :
    /\ StatsChecked(i)
    /\ \A j \in (i + 1)..Len(cards["career"]) : ~StatsChecked(j)
    /\ handleCheckboxToggle("career", i)

StatsNext ==
  \/ StatsCheck
  \/ StatsUncheck
  \/ closeCelebration

StatsSpec == StatsInit /\ [][StatsNext]_vars

(***************************************************************************)
(* Claims on the summary view's completion detection                       *)
(***************************************************************************)
\* isComplete of a month as the summary view computes it in the current state
IsCompleteNow(month) == calculateMonthStatistics(cards, checkedState, month).isComplete

\* C1: within one summary-view lifetime, a detection pass (run on a change of the
\* checkbox state) opens the celebration for a month exactly when that month's
\* isComplete was false before the pass and is true after it; when it opens, the
\* modal is open on one of the months that just completed.
C1_OpensExactlyOnCompletionEdge ==
  [][(view = "summary" /\ view' = "summary" /\ checkedState' # checkedState) =>
       /\ \A m \in MonthSet :
            (m \in openedInPass') <=>
              (/\ ~IsCompleteNow(m)
               /\ calculateMonthStatistics(cards', checkedState', m).isComplete)
       /\ openedInPass' # {} =>
            (celebrationModalOpen' /\ celebratingMonth' \in openedInPass')]_vars

\* a pass that opened the celebration for one month while another month stayed complete
C1_Witness ==
  /\ view = "summary"
  /\ \E m \in MonthSet : \E o \in MonthSet :
       /\ m # o
       /\ m \in openedInPass
       /\ o \notin openedInPass
       /\ IsCompleteNow(o)
       /\ celebrationModalOpen

\* C2: after the summary view mounts and before any summary checkbox is toggled,
\* no celebration has been opened, whatever the collection holds.
C2_MountOpensNoCelebration ==
  (view = "summary" /\ DOMAIN checkedState = {}) =>
     (~celebrationModalOpen /\ openedInPass = {} /\ celebratingMonth = Null)

\* a freshly mounted summary view over a collection in which every month has goals
C2_Witness ==
  /\ view = "summary"
  /\ DOMAIN checkedState = {}
  /\ DOMAIN previousCompletionRef = MonthSet
  /\ \A m \in MonthSet : \E c \in CardIds : MonthGoals(cards, c, m) # <<>>

(***************************************************************************)
(* Claims on the goal mutations and their persistence                      *)
(***************************************************************************)
\* C3: toggling a completed goal leaves every goal of that id in the category
\* with completed = false and no month, whatever the month was.
C3_UncheckClearsMonth ==
  [][\A c \in CardIds : \A i \in 1..MaxGoals :
       (/\ i <= Len(cards[c])
        /\ FindGoal(cards, c, cards[c][i].id).completed
        /\ toggleGoal(c, cards[c][i].id))
       => /\ Len(cards'[c]) = Len(cards[c])
          /\ \A j \in 1..Len(cards[c]) :
               cards[c][j].id = cards[c][i].id =>
                 (~cards'[c][j].completed /\ cards'[c][j].month = Undefined)]_vars

\* a goal that had a month has just been unchecked
C3_Witness ==
  /\ lastOp = "toggleGoal:uncheck-month"
  /\ \E c \in CardIds : \E i \in 1..Len(cards[c]) :
       ~cards[c][i].completed /\ cards[c][i].month = Undefined

\* C4 (as claimed): every goal that has a month is completed.
C4_MonthOnlyWhenCompleted ==
  \A c \in CardIds : \A i \in 1..Len(cards[c]) :
    cards[c][i].month # Undefined => cards[c][i].completed

\* C5 (as claimed): the collection written to storage holds no goal that is
\* completed without a month.
C5_NoTransientStatePersisted ==
  storedGoals # None =>
    \A c \in DOMAIN storedGoals[1] : \A i \in 1..Len(storedGoals[1][c]) :
      storedGoals[1][c][i].completed => "month" \in DOMAIN storedGoals[1][c][i]

(***************************************************************************)
(* Claims on the capture flow of the celebration modal                     *)
(***************************************************************************)
\* a flow is in progress: starting the camera, counting down, in the delay between
\* the end of the countdown and the first capture attempt, capturing or retrying,
\* or processing
FlowInProgress ==
  \/ isStartingCamera
  \/ countdown # NoCountdown
  \/ \E t \in Timers : t.kind = "captureDelay"
  \/ activeFlowIdRef # NoFlow
  \/ isCapturingRef
  \/ isProcessing

\* C6 (as claimed): while a flow is in progress no Take Selfie or Retake intent is
\* accepted, so no second camera start, countdown or capture loop begins.
C6_IntentRejectedWhileFlowInProgress ==
  [][FlowInProgress => ~(handleTakeSelfie \/ handleRetake)]_vars

\* C7 (as claimed): when the capture timeout of the active flow runs, no capture of
\* that flow having returned a file or thrown, the modal shows the timeout error
\* and has left camera mode, and no retry interval of that flow is pending any more.
C7_TimeoutEndsRetrying ==
  [][\A t \in Timers :
       (/\ captureTimeoutTimer(t)
        /\ activeFlowIdRef = t.arg
        /\ t.arg \notin nonNullFlows)
       => /\ cameraError' = "timed-out"
          /\ ~isCameraMode'
          /\ \A r \in BagToSet(timers') :
               ~(r.kind = "retryInterval" /\ r.arg = t.arg)]_vars

\* the modal's state, flags, camera and suspended calls: everything a callback can
\* act on, the pending-timer bookkeeping aside
FlowControl ==
  <<celebrationModalOpen, celebratingMonth, selectedImage, countdown, isCameraMode,
    cameraError, isStartingCamera, isProcessing, isSelfieCapture, isCapturingPhoto,
    isCapturingRef, flowRunIdRef, activeFlowIdRef, isActive, error, selfieTasks,
    captures>>

\* callback t ran and took no action: nothing changed, except that t itself is no
\* longer pending when it was a timeout or cancelled itself
Discarded(t) ==
  /\ UNCHANGED FlowControl
  /\ timers' \in {timers, timers (-) SetToBag({t})}
  /\ countdownTimerRef' \in {countdownTimerRef, StaleHandle}
  /\ captureTimeoutRef' \in {captureTimeoutRef, StaleHandle}
  /\ retryIntervalRef' \in {retryIntervalRef, NullHandle}

C9_ContinuationsGuardedByFlowId ==
  [][\A task \in CaptureTasks :
       (/\ activeFlowIdRef # task.flow
        /\ \/ \E result \in {"null", "file", "throw"} : capturePhotoSettles(task, result)
           \/ \E ok \in BOOLEAN : fileToDataUrlSettles(task, ok)
           \/ \E ok \in BOOLEAN : createCelebrationCompositeSettles(task, ok))
       => /\ isProcessing' = isProcessing
          /\ selectedImage' = selectedImage
          /\ cameraError' = cameraError]_vars

\* C10 (as claimed): once the modal is closed the camera is released, and a
\* countdown tick, delayed capture start, retry tick or capture timeout that runs
\* while the modal is closed takes no action.
C10_NoTimerActsAfterClose ==
  [][/\ ~celebrationModalOpen' => ~isActive'
     /\ \A t \in Timers :
          (/\ ~celebrationModalOpen
           /\ \/ runCountdownTimer(t)
              \/ countdownDoneTimer(t)
              \/ \E ready \in BOOLEAN : captureDelayTimer(t, ready)
              \/ \E ready \in BOOLEAN : retryIntervalTimer(t, ready)
              \/ captureTimeoutTimer(t))
          => Discarded(t)]_vars

\* C11 (as claimed): a step that takes the open modal out of camera mode leaves the
\* camera stopped, or (after a successful capture) its stopCamera timeout pending.
C11_CameraStoppedOnExit ==
  [][(/\ celebrationModalOpen
      /\ celebrationModalOpen'
      /\ isCameraMode
      /\ ~isCameraMode')
     => \/ ~isActive'
        \/ \E t \in BagToSet(timers') : t.kind = "stopCamera"]_vars

(***************************************************************************)
(* Claims on the monthly statistics                                        *)
(***************************************************************************)
\* the eligible goals of a month: positions of the goals completed in that month
Eligible(month) ==
  {<<c, i>> \in CardIds \X (1..MaxEligible) :
     /\ i <= Len(cards[c])
     /\ cards[c][i].completed
     /\ cards[c][i].month = month}

\* the eligible goals of a month whose key is true in the checkbox state
EligibleChecked(month) ==
  {e \in Eligible(month) :
     LET key == CheckboxId(e[1], cards[e[1]][e[2]].id, month)
     IN key \in DOMAIN checkedState /\ checkedState[key]}

\* 100 * checked / total rounded to the nearest integer, halves upwards
RoundHalfUp(checked, total) == (200 * checked + total) \div (2 * total)

\* C12 (as claimed): for every month with eligible goals the statistics are
\* completed = round-half-up(100 * checked / total), incomplete = 100 - completed,
\* progress = checked / total and isComplete iff checked = total.
C12_StatisticsOfMonth ==
  \A m \in MonthSet :
    LET total == Cardinality(Eligible(m))
        checked == Cardinality(EligibleChecked(m))
        stats == calculateMonthStatistics(cards, checkedState, m)
    IN total > 0 =>
         /\ stats.completed = RoundHalfUp(checked, total)
         /\ stats.incomplete = 100 - RoundHalfUp(checked, total)
         /\ stats.progress = <<checked, total>>
         /\ stats.isComplete = (checked = total)

\* the checkbox ids of every goal of the collection under every month
CheckboxIds ==
  {CheckboxId(e[1], cards[e[1]][e[2]].id, m) :
     e \in {p \in CardIds \X (1..MaxEligible) : p[2] <= Len(cards[p[1]])},
     m \in MonthSet}

\* C13: a month with no eligible goal has completed 0, incomplete 0, progress 0
\* and isComplete false under every checkbox state, and the celebration is never
\* open for such a month.
C13_EmptyMonthNeverCelebrated ==
  /\ \A m \in MonthSet :
       Eligible(m) = {} =>
         \A checked \in [CheckboxIds -> BOOLEAN] :
           LET stats == calculateMonthStatistics(cards, checked, m)
           IN /\ stats.completed = 0
              /\ stats.incomplete = 0
              /\ stats.progress[1] = 0
              /\ ~stats.isComplete
  /\ celebrationModalOpen => Eligible(celebratingMonth) # {}

\* the celebration reopened from a placeholder while another month has no eligible goal
C13_Witness ==
  /\ view = "summary"
  /\ celebrationModalOpen
  /\ celebratingMonth \in maybeLaterMonths
  /\ openedInPass = {}
  /\ \E m \in MonthSet : Eligible(m) = {}

(***************************************************************************)
(* Specification of goal mutations followed by summary checkboxes          *)
(***************************************************************************)
\* the dashboard over three uncompleted goals
FrameInit ==
  /\ PromptInit
  /\ cards["career"][1].id = "c1"
  /\ \A c \in CardIds : \A i \in 1..Len(cards[c]) :
       ~cards[c][i].completed /\ cards[c][i].month = Undefined

FrameCheckbox ==
  \E c \in CardIds : \E i \in 1..Len(cards[c]) : handleCheckboxToggle(c, i)

FrameNext ==
  \/ PromptToggle
  \/ PromptSelect
  \/ handleMonthConfirm
  \/ handleMonthCancel
  \/ enterSummary
  \/ onBackToDashboard
  \/ FrameCheckbox
  \/ closeCelebration

FrameSpec == FrameInit /\ [][FrameNext]_vars

(***************************************************************************)
(* Claims on what the summary checkboxes and the goal mutations touch      *)
(***************************************************************************)
\* C14: a step of the mounted summary that changes the checkbox state flips one key
\* and leaves every other key, every goal and the stored collection as they were;
\* flipping the same key again gives back the value read before; and a step that
\* changes a goal leaves the checkbox state as it was.
C14_CheckboxFrame ==
  [][/\ (view = "summary" /\ view' = "summary" /\ checkedState' # checkedState) =>
          /\ \E key \in CheckboxIds :
               /\ Checked(checkedState', key) = ~Checked(checkedState, key)
               /\ DOMAIN checkedState' = DOMAIN checkedState \cup {key}
               /\ \A k \in DOMAIN checkedState \ {key} : checkedState'[k] = checkedState[k]
               /\ Checked(ToggleKey(checkedState', key), key) = Checked(checkedState, key)
               /\ \A k \in DOMAIN checkedState \ {key} :
                    ToggleKey(checkedState', key)[k] = checkedState[k]
          /\ cards' = cards
          /\ storedGoals' = storedGoals
     /\ cards' # cards => checkedState' = checkedState]_vars

\* the summary with one box toggled once and another toggled twice
C14_Witness ==
  /\ view = "summary"
  /\ \E k1 \in DOMAIN checkedState : \E k2 \in DOMAIN checkedState :
       checkedState[k1] /\ ~checkedState[k2]

(***************************************************************************)
(* Specification of loading and saving with a storage that can fail        *)
(***************************************************************************)
\* the component never mounted: it holds no collection
NoCards == [unmounted |-> TRUE]

\* page load with the storage as the browser provides it: the useState initialiser
\* of cards, the first render, the persist effect
Mount(getItemThrows, setItemThrows) ==
  /\ LET loaded == LoadCards(storedGoals)
     IN /\ cards' = IF getItemThrows THEN NoCards ELSE loaded
        /\ fault' = IF getItemThrows THEN "getItem"
                    ELSE IF RenderThrows(loaded) THEN "render"
                    ELSE IF setItemThrows THEN "setItem"
                    ELSE NoFault
        /\ storedGoals' = IF fault' = NoFault THEN PersistEffect(loaded) ELSE storedGoals
  /\ editingGoal' = None
  /\ editText' = <<>>
  /\ view' = "dashboard"
  /\ monthModalOpen' = FALSE
  /\ selectedMonth' = Null
  /\ pendingGoal' = None
  /\ editTimers' = <<>>
  /\ lastOp' = "load"
  /\ UNCHANGED <<now, summaryVars, flowVars>>

\* toggleGoal(cardId, goalId) followed by the persist effect whose setItem throws
toggleGoalSetItemThrows(cardId, goalId) ==
  /\ view = "dashboard"
  /\ HasGoal(cards, cardId, goalId)
  /\ IF FindGoal(cards, cardId, goalId).completed
       THEN /\ cards' = MapGoal(cards, cardId, goalId,
                                [g \in GoalsOf(cards, cardId) |-> Uncheck(g)])
            /\ UNCHANGED <<pendingGoal, selectedMonth, monthModalOpen>>
       ELSE /\ cards' = MapGoal(cards, cardId, goalId,
                                [g \in GoalsOf(cards, cardId) |-> FlipCompleted(g)])
            /\ pendingGoal' = Some([cardId |-> cardId, goalId |-> goalId])
            /\ selectedMonth' = Null
            /\ monthModalOpen' = TRUE
  /\ fault' = "setItem"
  /\ lastOp' = "toggleGoal:setItem-throws"
  /\ UNCHANGED <<editingGoal, editText, view, editTimers, now, storedGoals>>
  /\ UNCHANGED <<summaryVars, flowVars>>

\* values the goals key can hold when the page loads: no value, the empty text, a
\* text that is no JSON, JSON values that are no collection, saved collections
StoredValues ==
  {None} \cup {Some(Text(t)) : t \in Unparseable \cup {"null", "{}", "7", "[7]"}}
         \cup {PersistEffect(initialCards)}

\* the goals key is written from outside the page (another tab, an earlier version)
StorageWritten(value) ==
  /\ value # storedGoals
  /\ storedGoals' = value
  /\ UNCHANGED <<cards, editingGoal, editText, view, monthModalOpen, selectedMonth,
                 pendingGoal, editTimers, now, lastOp, fault>>
  /\ UNCHANGED <<summaryVars, flowVars>>

StorageMount == \E getItemThrows, setItemThrows \in BOOLEAN : Mount(getItemThrows, setItemThrows)

StorageChange == \E value \in StoredValues : StorageWritten(value)

\* the handlers of a page that is mounted
StorageToggle ==
  /\ fault = NoFault
  /\ \E c \in CardIds : \E i \in 1..Len(cards[c]) :
       \/ toggleGoal(c, cards[c][i].id)
       \/ toggleGoalSetItemThrows(c, cards[c][i].id)

StoragePrompt ==
  /\ fault = NoFault
  /\ \/ PromptSelect
     \/ handleMonthConfirm
     \/ handleMonthCancel

StorageNext ==
  \/ StorageMount
  \/ StorageChange
  \/ StorageToggle
  \/ StoragePrompt

StorageSpec == Init /\ [][StorageNext]_vars

(***************************************************************************)
(* Claims on loading and saving the collection                             *)
(***************************************************************************)
\* the goals key is missing or holds a text that JSON.parse rejects
MissingOrUnparseable(stored) ==
  \/ stored = None
  \/ IsText(stored[1]) /\ stored[1].text \in Unparseable

\* the goals key holds JSON that is no array of categories with goal arrays
WrongShape(stored) ==
  /\ stored # None
  /\ IsText(stored[1])
  /\ stored[1].text \notin Unparseable

\* C15 (as claimed): a page load never lets a fault of reading the storage reach
\* the dashboard, and with the goals key missing, unparseable or unreadable the
\* collection is the seed default.
C15_LoadFailsOpen ==
  [][\A getItemThrows, setItemThrows \in BOOLEAN :
       Mount(getItemThrows, setItemThrows) =>
         /\ fault' # "getItem"
         /\ (getItemThrows \/ MissingOrUnparseable(storedGoals)) => cards' = initialCards]_vars

\* C16 (as claimed): a page load over a goals key whose JSON is no collection gives
\* the seed default and the first render raises nothing.
C16_WrongShapeFallsBack ==
  [][\A getItemThrows, setItemThrows \in BOOLEAN :
       (Mount(getItemThrows, setItemThrows) /\ ~getItemThrows /\ WrongShape(storedGoals)) =>
         /\ cards' = initialCards
         /\ fault' # "render"]_vars

\* C18 (as claimed): when the write of the persist effect fails after a toggle, no
\* fault reaches the dashboard and the collection in memory holds the toggled goal.
C18_WriteFailureNotSurfaced ==
  [][fault = NoFault =>
       \A c \in CardIds : \A i \in 1..Len(cards[c]) :
         toggleGoalSetItemThrows(c, cards[c][i].id) =>
           /\ fault' = NoFault
           /\ cards'[c][i].completed = ~cards[c][i].completed]_vars

(***************************************************************************)
(* Specification of the goal mutations and their persistence               *)
(***************************************************************************)
\* toggle on the goals of the first category, edit on its first goal
MutationGoal ==
  \/ \E i \in 1..Len(cards["career"]) : toggleGoal("career", cards["career"][i].id)
  \/ Len(cards["career"]) > 0 /\ startEditing("career", cards["career"][1].id)

\* delete on the goals of the second category
MutationDelete ==
  \E i \in 1..Len(cards["health"]) : deleteGoal("health", cards["health"][i].id)

\* the user types a text with a blank to trim
MutationEditInput == setEditText(<<" ", "x">>)

MutationAdd == addGoal("career")

MutationNext ==
  \/ MutationGoal
  \/ MutationDelete
  \/ PromptSelect
  \/ handleMonthConfirm
  \/ handleMonthCancel
  \/ MutationEditInput
  \/ saveEdit
  \/ cancelEdit
  \/ MutationAdd
  \/ addGoalTimer
  \/ Reload

MutationSpec == Init /\ [][MutationNext]_vars

\* C17: after every goal handler the goals key holds the serialised collection of
\* the dashboard, and reads back as that collection.
C17_WriteThrough ==
  /\ storedGoals = PersistEffect(cards)
  /\ LoadCards(storedGoals) = cards

\* a collection after a delete, an add, an edit, a toggle and a month confirm
C17_Witness ==
  /\ Len(cards["health"]) = 0
  /\ Len(cards["career"]) = 2
  /\ \E i \in 1..Len(cards["career"]) :
       /\ cards["career"][i].text = <<"x">>
       /\ cards["career"][i].completed
       /\ cards["career"][i].month # Undefined
  /\ \E i \in 1..Len(cards["career"]) : ~cards["career"][i].completed

\* C19: a page load over the collection the dashboard saved gives that collection
\* back, goals without a month included, and saves the same text again; saving
\* and loading once more changes nothing.
C19_SaveLoadRoundTrip ==
  [][Reload =>
       /\ cards' = cards
       /\ storedGoals' = storedGoals
       /\ LoadCards(PersistEffect(cards')) = cards'
       /\ PersistEffect(LoadCards(PersistEffect(cards'))) = storedGoals']_vars

\* a reloaded collection with a goal of an assigned month and a goal without month
C19_Witness ==
  /\ lastOp = "load"
  /\ cards # initialCards
  /\ \E c \in CardIds : \E i \in 1..Len(cards[c]) : cards[c][i].month # Undefined
  /\ \E c \in CardIds : \E i \in 1..Len(cards[c]) : cards[c][i].month = Undefined

(***************************************************************************)
(* Claims on checking a goal and the month prompt                          *)
(***************************************************************************)
\* the collection with goal i of category c replaced by g
WithGoal(cs, c, i, g) == [cs EXCEPT ![c][i] = g]

\* C20 (as claimed): the checkbox of an uncompleted goal makes that goal, and no
\* other, completed with no month and opens the prompt for it; Confirm with month M
\* on the goal just checked makes that goal, and no other, completed in M and
\* closes the prompt; Confirm without a month changes nothing.
C20_CheckThenConfirm ==
  [][/\ \A c \in CardIds : \A i \in 1..MaxGoals :
          (/\ i <= Len(cards[c])
           /\ ~cards[c][i].completed
           /\ toggleGoal(c, cards[c][i].id))
          => /\ cards' = WithGoal(cards, c, i,
                                  [cards[c][i] EXCEPT !.completed = TRUE,
                                                      !.month = Undefined])
             /\ monthModalOpen'
             /\ pendingGoal' = Some([cardId |-> c, goalId |-> cards[c][i].id])
     /\ \A c \in CardIds : \A i \in 1..MaxGoals :
          (/\ i <= Len(cards[c])
           /\ pendingGoal = Some([cardId |-> c, goalId |-> cards[c][i].id])
           /\ cards[c][i].completed
           /\ cards[c][i].month = Undefined
           /\ lastOp \in {"toggleGoal:check", "onMonthSelect"}
           /\ handleMonthConfirm)
          => /\ cards' = WithGoal(cards, c, i,
                                  [cards[c][i] EXCEPT !.month = selectedMonth])
             /\ ~monthModalOpen'
     /\ handleMonthConfirm => selectedMonth # Null]_vars

\* C21 (as claimed): dismissing the prompt that is open for a goal leaves that goal
\* uncompleted without a month and every other goal as it was, closes the prompt
\* and clears the pending goal.
C21_CancelRevertsPendingGoal ==
  [][\A c \in CardIds : \A i \in 1..MaxGoals :
       (/\ i <= Len(cards[c])
        /\ pendingGoal = Some([cardId |-> c, goalId |-> cards[c][i].id])
        /\ handleMonthCancel)
       => /\ cards' = WithGoal(cards, c, i,
                               [cards[c][i] EXCEPT !.completed = FALSE,
                                                   !.month = Undefined])
          /\ ~monthModalOpen'
          /\ pendingGoal' = None]_vars

\* C22 (as claimed): a month confirm changes only goals that are completed when it
\* runs; with a pending goal that is not completed the collection stays as it is.
C22_MonthOnlyOntoCompletedGoal ==
  [][handleMonthConfirm =>
       \A c \in CardIds : \A i \in 1..MaxGoals :
         (i <= Len(cards[c]) /\ ~cards[c][i].completed) => cards'[c][i] = cards[c][i]]_vars

(***************************************************************************)
(* Specification of adding, deleting and editing goals                     *)
(***************************************************************************)
EditGoal ==
  \E c \in CardIds : \E i \in 1..Len(cards[c]) :
    \/ startEditing(c, cards[c][i].id)
    \/ deleteGoal(c, cards[c][i].id)

EditInput == \E text \in EditInputs : setEditText(text)

EditAdd == \E c \in CardIds : addGoal(c)

EditNext ==
  \/ EditGoal
  \/ EditInput
  \/ saveEdit
  \/ cancelEdit
  \/ EditAdd
  \/ addGoalTimer
  \/ Tick

EditSpec == Init /\ [][EditNext]_vars

(***************************************************************************)
(* Claims on editing, adding and deleting goals                            *)
(***************************************************************************)
\* C23 (as claimed): saving the edit of a goal leaves its text as it was when the
\* input is empty or blank and sets it to the trimmed input otherwise; edit mode
\* ends; no other field of the goal and no other goal changes.
C23_SaveEditTrimsOrKeeps ==
  [][\A c \in CardIds : \A i \in 1..MaxGoals :
       (/\ i <= Len(cards[c])
        /\ editingGoal = Some([cardId |-> c, goalId |-> cards[c][i].id])
        /\ saveEdit)
       => /\ cards' = WithGoal(cards, c, i,
                               [cards[c][i] EXCEPT !.text =
                                  IF Trim(editText) = <<>> THEN @ ELSE Trim(editText)])
          /\ editingGoal' = None]_vars

\* the sequence s without its element at position i
WithoutAt(s, i) == SubSeq(s, 1, i - 1) \o SubSeq(s, i + 1, Len(s))

\* the ids of the goals of a category are pairwise distinct
DistinctIds(cs, c) ==
  \A i \in 1..Len(cs[c]) : \A j \in 1..Len(cs[c]) : i # j => cs[c][i].id # cs[c][j].id

\* C25 (as claimed): after every add and delete the ids within a category are
\* pairwise distinct; an add appends one goal, uncompleted and without a month,
\* and leaves the goals that exist, their ids included, as they are; a delete
\* removes the targeted goal only and keeps the order of the others.
C25_IdsDistinctAddAppendsDeleteRemoves ==
  [][/\ \A c \in CardIds : DistinctIds(cards', c)
     /\ \A c \in CardIds :
          addGoal(c) =>
            /\ Len(cards'[c]) = Len(cards[c]) + 1
            /\ SubSeq(cards'[c], 1, Len(cards[c])) = cards[c]
            /\ ~cards'[c][Len(cards'[c])].completed
            /\ cards'[c][Len(cards'[c])].month = Undefined
            /\ \A o \in CardIds \ {c} : cards'[o] = cards[o]
     /\ \A c \in CardIds : \A i \in 1..MaxGoals :
          (i <= Len(cards[c]) /\ deleteGoal(c, cards[c][i].id)) =>
            cards' = [cards EXCEPT ![c] = WithoutAt(cards[c], i)]]_vars

(***************************************************************************)
(* Specification of the handlers called with ids that match nothing        *)
(***************************************************************************)
\* a category id that no category carries, and a goal id that no goal carries
UnknownCard == "other"

UnknownGoal == "g0"

\* the ids of the goals of the collection
GoalIds(cs) == UNION {{g.id : g \in GoalsOf(cs, c)} : c \in DOMAIN cs}

\* the handlers are called on the career category and on the unknown one
HandlerCards == {"career", UnknownCard}

HandlerToggle ==
  \E c \in HandlerCards : \E id \in GoalIds(cards) \cup {UnknownGoal} : toggleGoal(c, id)

HandlerDelete ==
  \/ \E c \in HandlerCards : \E id \in GoalIds(cards) \cup {UnknownGoal} : deleteGoal(c, id)
  \/ \E i \in 1..Len(cards["health"]) : deleteGoal("health", cards["health"][i].id)

HandlerStartEditing ==
  \E i \in 1..Len(cards["career"]) : startEditing("career", cards["career"][i].id)

HandlerMonthSelect == onMonthSelect(MONTHS[1])

HandlerAdd == \E c \in HandlerCards : addGoal(c)

HandlerNext ==
  \/ HandlerToggle
  \/ HandlerDelete
  \/ HandlerStartEditing
  \/ HandlerMonthSelect
  \/ handleMonthConfirm
  \/ handleMonthCancel
  \/ saveEdit
  \/ HandlerAdd
  \/ addGoalTimer

HandlerSpec == Init /\ [][HandlerNext]_vars

\* C24: toggle, delete and add called with a category id or goal id that matches
\* nothing, and month confirm, cancel and edit-save whose pending or editing
\* reference matches no goal any more, leave the collection as it is and raise
\* no fault.
C24_UnknownIdsAreNoOps ==
  [][/\ \A c \in CardIds \cup {UnknownCard} : \A id \in GoalIds(cards) \cup {UnknownGoal} :
          (~HasGoal(cards, c, id) /\ (toggleGoal(c, id) \/ deleteGoal(c, id)))
            => (cards' = cards /\ fault' = NoFault)
     /\ addGoal(UnknownCard) => (cards' = cards /\ fault' = NoFault)
     /\ (/\ pendingGoal # None
         /\ ~HasGoal(cards, pendingGoal[1].cardId, pendingGoal[1].goalId)
         /\ handleMonthConfirm \/ handleMonthCancel)
          => (cards' = cards /\ fault' = NoFault)
     /\ (/\ editingGoal # None
         /\ ~HasGoal(cards, editingGoal[1].cardId, editingGoal[1].goalId)
         /\ saveEdit)
          => (cards' = cards /\ fault' = NoFault)]_vars

\* C24 witness: a month was confirmed while the pending goal was gone, so no goal
\* carries a month after the confirm
C24_Witness ==
  /\ lastOp = "handleMonthConfirm"
  /\ \A c \in CardIds : \A i \in 1..Len(cards[c]) : cards[c][i].month = Undefined

\* CAPTURING: the flow of the suspended attempt is the active flow of the open
\* modal in camera mode
Capturing(task) ==
  /\ celebrationModalOpen
  /\ isCameraMode
  /\ isCapturingPhoto
  /\ ~isProcessing
  /\ task.pc = "capturePhoto"
  /\ task.flow = activeFlowIdRef

\* the callbacks of a capture flow that are pending: countdown ticks, the delayed
\* capture start, retry ticks and capture timeouts
FlowTimers(tm) ==
  {t \in BagToSet(tm) : t.kind \in {"runCountdown", "countdownDone", "captureDelay",
                                    "retryInterval", "captureTimeout"}}

\* C26 (as claimed): in CAPTURING a capture that returns null leaves the flow
\* active with its retry interval pending; a capture that throws ends the flow
\* with the capture error, outside camera mode, with no callback of a flow left
\* pending; a capture that returns a file enters PROCESSING with no callback of
\* a flow left pending.
C26_NullRetriesThrowAbortsFileProceeds ==
  [][\A task \in CaptureTasks :
       Capturing(task) =>
         /\ capturePhotoSettles(task, "null") =>
              /\ activeFlowIdRef' = task.flow
              /\ cameraError' = cameraError
              /\ \E t \in BagToSet(timers') :
                   t.kind = "retryInterval" /\ t.arg = task.flow /\ t.held
         /\ capturePhotoSettles(task, "throw") =>
              /\ activeFlowIdRef' = NoFlow
              /\ ~isCameraMode'
              /\ cameraError' = "capture-failed"
              /\ FlowTimers(timers') = {}
         /\ capturePhotoSettles(task, "file") =>
              /\ isProcessing'
              /\ cameraError' = cameraError
              /\ FlowTimers(timers') = {}]_vars

\* C27 (as claimed): a failed camera start ends in ERROR, not starting, outside
\* camera mode and without countdown, showing the message of the kind of this
\* failure; on a device without camera support Take Selfie shows not-supported
\* and starts no camera.
C27_StartFailureReportsItsKind ==
  [][/\ \A task \in SelfieTasks : \A kind \in ErrorKinds :
          startCameraSettles(task, FALSE, kind) =>
            /\ ~isStartingCamera'
            /\ ~isCameraMode'
            /\ countdown' = NoCountdown
            /\ cameraError' = StartErrorMessage(kind)
     /\ (handleTakeSelfie /\ ~isSupported) =>
            /\ cameraError' = "not-supported"
            /\ ~isStartingCamera'
            /\ ~isCameraMode'
            /\ countdown' = NoCountdown
            /\ selfieTasks' = selfieTasks]_vars

(***************************************************************************)
(* Specification of previewing, saving and uploading a memory              *)
(***************************************************************************)
\* largest flow id handed out, and largest number of handleFileChange calls
\* suspended at once, where memories are saved
MemoryFlows == 1

MaxUploads == 1

\* largest number of pending timeouts of the modal where memories are saved
MemoryPending == 1

MemoryBounded ==
  /\ Within(MemoryFlows, MaxSelfieTasks, MaxInFlight, MemoryPending)
  /\ BagCardinality(uploads) <= MaxUploads

MemoryInit == FlowInit /\ isSupported

MemoryTakeSelfie == (handleTakeSelfie \/ handleRetake) /\ MemoryBounded'

\* the camera starts, its preview gets ready and the video has dimensions
MemoryCameraSettles ==
  \E task \in SelfieTasks :
    \/ startCameraSettles(task, TRUE, Null)
    \/ waitForPreviewReadySettles(task, TRUE) /\ MemoryBounded'

MemoryTimer ==
  \E t \in Timers :
    \/ runCountdownTimer(t)
    \/ countdownDoneTimer(t)
    \/ captureTimeoutTimer(t)
    \/ stopCameraTimer(t)
    \/ captureDelayTimer(t, TRUE) /\ MemoryBounded'

MemoryCaptureSettles ==
  \E task \in CaptureTasks :
    \/ \E result \in {"file", "throw"} :
         capturePhotoSettles(task, result) /\ MemoryBounded'
    \/ \E ok \in BOOLEAN : fileToDataUrlSettles(task, ok)
    \/ \E ok \in BOOLEAN : createCelebrationCompositeSettles(task, ok)

MemorySave == \E setItemThrows \in BOOLEAN : handleSaveToMemories(setItemThrows)

MemoryUpload == handleFileChange /\ MemoryBounded'

MemoryUploadSettles ==
  \E task \in BagToSet(uploads) : \E ok \in BOOLEAN :
    \/ uploadFileToDataUrlSettles(task, ok)
    \/ \E setItemThrows \in BOOLEAN : uploadCompositeSettles(task, ok, setItemThrows)

MemoryNext ==
  \/ OpenCelebration
  \/ MemoryTakeSelfie
  \/ MemoryCameraSettles
  \/ MemoryTimer
  \/ MemoryCaptureSettles
  \/ MemorySave
  \/ handleNotificationDismiss
  \/ MemoryUpload
  \/ MemoryUploadSettles
  \/ handleClose
  \/ handleMaybeLater
  \/ closeEffect

MemorySpec == MemoryInit /\ [][MemoryNext]_vars

\* C28 (as claimed): in PROCESSING a failure of the compositing still ends in the
\* preview, with an image and without error, for a captured photo (the raw
\* capture) and for an uploaded file alike.
C28_CompositeFailureFallsBackToRaw ==
  [][(celebrationModalOpen /\ isProcessing) =>
       /\ \A task \in CaptureTasks :
            createCelebrationCompositeSettles(task, FALSE) =>
              /\ isInSelfiePreview'
              /\ selectedImage' = "raw"
              /\ cameraError' = Null
       /\ \A task \in BagToSet(uploads) : \A setItemThrows \in BOOLEAN :
            uploadCompositeSettles(task, FALSE, setItemThrows) =>
              /\ isInSelfiePreview'
              /\ cameraError' = Null]_vars

\* C29 (as claimed): Save in PREVIEW stores the previewed image under the key of
\* the celebrated month and leaves the other keys alone, the summary shows the
\* memories of the store, the saved notice is shown, and dismissing the notice
\* closes the modal.
C29_SaveStoresPreviewThenCloses ==
  [][/\ \A setItemThrows \in BOOLEAN :
          handleSaveToMemories(setItemThrows) =>
            /\ memoryStore' = [memoryStore EXCEPT ![getStorageKey(celebratingMonth)] =
                                 selectedImage]
            /\ getMonthlyMemory(memoryStore', celebratingMonth) = selectedImage
            /\ monthlyMemories' = getAllMonthlyMemories(memoryStore')
            /\ showSaveNotification'
            /\ celebrationModalOpen'
     /\ (celebrationModalOpen /\ handleNotificationDismiss) =>
            /\ ~celebrationModalOpen'
            /\ ~showSaveNotification'
            /\ memoryStore' = memoryStore]_vars

\* C30 (as claimed): the memory store changes only in a Save from the preview; an
\* uploaded file that was converted and composited is previewed and not stored.
C30_StoreWrittenOnlyBySave ==
  [][/\ memoryStore' # memoryStore =>
          \E setItemThrows \in BOOLEAN : handleSaveToMemories(setItemThrows)
     /\ \A task \in BagToSet(uploads) : \A setItemThrows \in BOOLEAN :
          (celebrationModalOpen /\ uploadCompositeSettles(task, TRUE, setItemThrows)) =>
            /\ memoryStore' = memoryStore
            /\ isInSelfiePreview']_vars

(***************************************************************************)
(* C31: Retake                                                             *)
(***************************************************************************)
\* the Retake button is shown and enabled: the preview of a selfie, not processing
RetakeOffered == celebrationModalOpen /\ isInSelfiePreview /\ ~isProcessing

\* C31: choosing Retake in the preview is always acted on; it discards the preview
\* image, writes nothing to the memory store and leaves the flow starting the
\* camera (or refused, where no camera is supported) with no countdown shown and
\* no flow active; and every capture that starts takes a flow id larger than all
\* ids before it
C31_RetakeDiscardsAndRestarts ==
  [][/\ RetakeOffered => activeFlowIdRef = NoFlow /\ ~isCapturingRef
     /\ handleRetake =>
          /\ selectedImage' = Null
          /\ ~isSelfieCapture'
          /\ memoryStore' = memoryStore
          /\ countdown' = NoCountdown
          /\ activeFlowIdRef' = NoFlow
          /\ flowRunIdRef' = flowRunIdRef
          /\ IF isSupported
               THEN /\ isStartingCamera' /\ isCameraMode' /\ cameraError' = Null
                    /\ \E task \in BagToSet(selfieTasks') : task.pc = "startCamera"
               ELSE ~isStartingCamera' /\ ~isCameraMode' /\ cameraError' = "not-supported"
     /\ \A t \in Timers : \A ready \in BOOLEAN :
          captureDelayTimer(t, ready) /\ flowRunIdRef' # flowRunIdRef =>
            /\ flowRunIdRef' > flowRunIdRef
            /\ activeFlowIdRef' \in {flowRunIdRef', NoFlow}]_vars

(***************************************************************************)
(* Specification of the countdown: a handleTakeSelfie call suspended when  *)
(* the modal is closed may resume beside the call of the next opening      *)
(***************************************************************************)
\* largest number of handleTakeSelfie calls suspended at once
CountdownTasks == 2

CountdownBounded == Within(MaxFlows, CountdownTasks, MaxInFlight, MaxPending)

CountdownTakeSelfie == handleTakeSelfie /\ CountdownBounded'

CountdownCameraSettles ==
  \E task \in SelfieTasks :
    \/ startCameraSettles(task, TRUE, Null)
    \/ \E previewReady \in BOOLEAN :
         waitForPreviewReadySettles(task, previewReady) /\ CountdownBounded'

CountdownNext ==
  \/ OpenCelebration
  \/ CountdownTakeSelfie
  \/ CountdownCameraSettles
  \/ RunCountdownTimer
  \/ CountdownDoneTimer
  \/ handleClose
  \/ closeEffect

CountdownSpec == OverlapInit /\ [][CountdownNext]_vars

(***************************************************************************)
(* C32: the countdown                                                      *)
(***************************************************************************)
\* the pending callbacks of the countdown: the next tick, or the end of showing 0
Ticks(tm) == {t \in BagToSet(tm) : t.kind \in {"runCountdown", "countdownDone"}}

\* the pending 150 ms delays before a first capture attempt
CaptureDelays(tm) == BagCardinality(tm) - BagCardinality(tm (-) SetToBag(
                       {t \in BagToSet(tm) : t.kind = "captureDelay"}))

\* C32: the countdown starts, at 5, only when waiting for the preview settled
\* ready with the camera active and the video shown; it then shows 4, 3, 2, 1, 0
\* in this order; a first capture attempt is scheduled only by the step that ends
\* the showing of 0; and whenever no countdown is shown no tick is pending
C32_CountdownOrderAndTeardown ==
  [][/\ countdown' # countdown =>
          \/ /\ countdown = NoCountdown
             /\ countdown' = sequence[1]
             /\ isActive /\ isCameraMode
             /\ \E task \in SelfieTasks : waitForPreviewReadySettles(task, TRUE)
          \/ /\ countdown > 0
             /\ countdown' = countdown - 1
          \/ countdown' = NoCountdown
     /\ CaptureDelays(timers') > CaptureDelays(timers) =>
          countdown = 0 /\ countdown' = NoCountdown
     /\ countdown' = NoCountdown => Ticks(timers') = {}]_vars

(***************************************************************************)
(* Specification of the storage of the monthly memories                    *)
(***************************************************************************)
\* const STORAGE_KEY = 'goals-dashboard-cards'
STORAGE_KEY == "goals-dashboard-cards"

\* the image data URLs the storage functions are called with, the empty string
\* among them
MemoryImages == {"", "composite", "uploaded"}

\* the state of the modal, the memory store aside
modalVars == <<selectedImage, countdown, isCameraMode, cameraError, isStartingCamera,
               isProcessing, isSelfieCapture, isCapturingPhoto, countdownTimerRef,
               retryIntervalRef, captureTimeoutRef, isCapturingRef, flowRunIdRef,
               activeFlowIdRef, renderedFlowActive, isActive, isSupported, error,
               timers, selfieTasks, captures, nonNullFlows, showSaveNotification,
               pendingCloseRef, uploads>>

\* a call of saveMonthlyMemory(month, imageDataUrl)
saveMemory(month, imageDataUrl, setItemThrows) ==
  /\ memoryStore' = saveMonthlyMemory(memoryStore, month, imageDataUrl, setItemThrows)
  /\ lastOp' = IF setItemThrows THEN "saveMonthlyMemory:throws" ELSE "saveMonthlyMemory"
  /\ UNCHANGED <<cards, editingGoal, editText, view, monthModalOpen, selectedMonth,
                 pendingGoal, editTimers, now, storedGoals, fault>>
  /\ UNCHANGED <<summaryVars, modalVars>>

\* a call of clearMonthlyMemory(month)
clearMemory(month, removeItemThrows) ==
  /\ memoryStore' = clearMonthlyMemory(memoryStore, month, removeItemThrows)
  /\ lastOp' = IF removeItemThrows THEN "clearMonthlyMemory:throws" ELSE "clearMonthlyMemory"
  /\ UNCHANGED <<cards, editingGoal, editText, view, monthModalOpen, selectedMonth,
                 pendingGoal, editTimers, now, storedGoals, fault>>
  /\ UNCHANGED <<summaryVars, modalVars>>

StoreSave ==
  \E m \in MonthSet : \E img \in MemoryImages : \E setItemThrows \in BOOLEAN :
    saveMemory(m, img, setItemThrows)

StoreClear ==
  \E m \in MonthSet : \E removeItemThrows \in BOOLEAN : clearMemory(m, removeItemThrows)

\* the goal collection is saved: a toggle of the first goal, the prompt cancelled
StoreToggle ==
  Len(cards["career"]) > 0 /\ toggleGoal("career", cards["career"][1].id)

MemoryStoreNext ==
  \/ StoreSave
  \/ StoreClear
  \/ StoreToggle
  \/ handleMonthCancel

MemoryStoreSpec == Init /\ [][MemoryStoreNext]_vars

\* C33 (as claimed): after saveMonthlyMemory(m, img) the memory of m loads as img,
\* whether or not the storage access failed.
C33_LoadAfterSaveReturnsImage ==
  [][\A m \in MonthSet : \A img \in MemoryImages : \A setItemThrows \in BOOLEAN :
       saveMemory(m, img, setItemThrows) =>
         getMonthlyMemoryCatching(memoryStore', m, FALSE) = img]_vars

\* C33 (amended): after a save of img for m whose setItem succeeded the memory of m
\* loads as img, the latest image; after a clear whose removeItem succeeded it
\* loads as null; a load whose getItem throws returns null; null and the empty
\* string are no memory of getAllMonthlyMemories; a save or clear whose storage
\* access throws leaves the store as it was; and no call raises a fault.
C33_SaveLoadClear ==
  [][/\ \A m \in MonthSet : \A img \in MemoryImages : \A setItemThrows \in BOOLEAN :
          saveMemory(m, img, setItemThrows) =>
            /\ fault' = NoFault
            /\ IF setItemThrows
                 THEN memoryStore' = memoryStore
                 ELSE /\ getMonthlyMemoryCatching(memoryStore', m, FALSE) = img
                      /\ (m \in DOMAIN getAllMonthlyMemories(memoryStore')) = (img # "")
                      /\ img # "" => getAllMonthlyMemories(memoryStore')[m] = img
     /\ \A m \in MonthSet : \A removeItemThrows \in BOOLEAN :
          clearMemory(m, removeItemThrows) =>
            /\ fault' = NoFault
            /\ IF removeItemThrows
                 THEN memoryStore' = memoryStore
                 ELSE /\ getMonthlyMemoryCatching(memoryStore', m, FALSE) = Null
                      /\ m \notin DOMAIN getAllMonthlyMemories(memoryStore')
     /\ \A m \in MonthSet :
          /\ getMonthlyMemoryCatching(memoryStore', m, TRUE) = Null
          /\ getMonthlyMemoryCatching(memoryStore', m, FALSE) \in {Null, ""}
               => m \notin DOMAIN getAllMonthlyMemories(memoryStore')]_vars

\* both months hold a memory of their own, the last call a save that succeeded
C33_Witness ==
  /\ lastOp = "saveMonthlyMemory"
  /\ getMonthlyMemory(memoryStore, MONTHS[2]) = "uploaded"
  /\ getMonthlyMemory(memoryStore, MONTHS[1]) = "composite"

\* C34: the keys of the memories differ from month to month and from the goals
\* key; a save or a clear of the memory of month m changes at most the key of m,
\* and leaves the goals key as it was; a save of the goal collection changes no
\* memory key.
C34_MemoryKeysIndependent ==
  [][/\ STORAGE_KEY \notin MemoryKeys
     /\ \A m1, m2 \in MonthSet : getStorageKey(m1) = getStorageKey(m2) => m1 = m2
     /\ \A m \in MonthSet :
          (\/ \E img \in MemoryImages : \E setItemThrows \in BOOLEAN :
                saveMemory(m, img, setItemThrows)
           \/ \E removeItemThrows \in BOOLEAN : clearMemory(m, removeItemThrows))
          => /\ storedGoals' = storedGoals
             /\ \A k \in MemoryKeys \ {getStorageKey(m)} : memoryStore'[k] = memoryStore[k]
     /\ storedGoals' # storedGoals => memoryStore' = memoryStore]_vars

\* the memory of the first month was cleared, that of the second month is kept,
\* and the goals key holds a collection saved by a toggle
C34_Witness ==
  /\ lastOp = "clearMonthlyMemory"
  /\ getMonthlyMemory(memoryStore, MONTHS[1]) = Null
  /\ getMonthlyMemory(memoryStore, MONTHS[2]) = "composite"
  /\ storedGoals # PersistEffect(initialCards)

(***************************************************************************)
(* Specification of the goal set changing between visits of the summary    *)
(***************************************************************************)
RetainedCheckbox ==
  \E c \in CardIds : \E i \in 1..Len(cards[c]) : handleCheckboxToggle(c, i)

RetainedNext ==
  \/ PromptToggle
  \/ PromptSelect
  \/ handleMonthConfirm
  \/ handleMonthCancel
  \/ enterSummary
  \/ onBackToDashboard
  \/ RetainedCheckbox
  \/ closeCelebration

RetainedSpec == Init /\ [][RetainedNext]_vars

\* C35: while the summary view is mounted, after every handler, the retained
\* previous-completion value of every month is the isComplete of that month
\* computed from the goals and the checkbox state as they are; the goal set
\* changes only while the view is unmounted, and nothing is retained then.
C35_RetainedCompletionIsCurrent ==
  /\ view = "summary" =>
       /\ DOMAIN previousCompletionRef = MonthSet
       /\ \A m \in MonthSet : previousCompletionRef[m] = IsCompleteNow(m)
  /\ view = "dashboard" => previousCompletionRef = EmptyMap

\* the summary view over a goal set changed since the start, a month complete by
\* its checkboxes and its retained value true
C35_Witness ==
  /\ view = "summary"
  /\ cards # initialCards
  /\ \E m \in MonthSet :
       /\ IsCompleteNow(m)
       /\ WasComplete(previousCompletionRef, m)
       /\ \E o \in MonthSet : ~IsCompleteNow(o) /\ \E c \in CardIds : MonthGoals(cards, c, o) # <<>>

(***************************************************************************)
(* Specification of the wait for the camera preview                       *)
(***************************************************************************)
\* `await waitForPreviewReady()` rejects: the initial check of the promise finds
\* the video ready (play() has just cleared `paused`) and calls cleanup() before
\* `const cleanup` is initialised; handleTakeSelfie has no catch and ends there
waitForPreviewReadyThrows(task) ==
  /\ BagIn(task, selfieTasks)
  /\ task.pc = "waitForPreviewReady"
  /\ Commit([Modal EXCEPT !.selfieTasks = @ (-) SetToBag({task})])

PreviewStartCameraSettles ==
  \E task \in SelfieTasks : startCameraSettles(task, TRUE, Null)

\* the promise of waitForPreviewReady resolves: true by an event of the video or
\* the poll, false by its 5 s timeout
PreviewResolves ==
  \E task \in SelfieTasks : \E previewReady \in BOOLEAN :
    waitForPreviewReadySettles(task, previewReady) /\ FlowBounded'

PreviewThrows == \E task \in SelfieTasks : waitForPreviewReadyThrows(task)

PreviewNext ==
  \/ OpenCelebration
  \/ TakeSelfie
  \/ PreviewStartCameraSettles
  \/ PreviewResolves
  \/ PreviewThrows
  \/ RunCountdownTimer
  \/ CountdownDoneTimer
  \/ handleClose
  \/ handleMaybeLater

\* timers run: the 5 s timeout of a pending promise expires unless the promise
\* resolved before
PreviewSpec == OverlapInit /\ [][PreviewNext]_vars /\ WF_vars(PreviewResolves)

\* a handleTakeSelfie call waits for the preview
AwaitsPreview == \E task \in SelfieTasks : task.pc = "waitForPreviewReady"

\* C36 (as claimed): the wait for the preview settles once, and then the flow
\* either shows the first digit of the countdown or shows the preview error
\* outside camera mode; and a flow that is starting the camera, its camera
\* started, eventually is starting the camera no longer.
C36_StartingCameraIsLeft ==
  /\ [][\A task \in SelfieTasks :
          (\/ waitForPreviewReadyThrows(task)
           \/ \E previewReady \in BOOLEAN : waitForPreviewReadySettles(task, previewReady))
          => /\ BagCardinality(selfieTasks') = BagCardinality(selfieTasks) - 1
             /\ ~isStartingCamera'
             /\ \/ countdown' = sequence[1] /\ isCameraMode'
                \/ cameraError' = "preview-failed" /\ ~isCameraMode']_vars
  /\ (isStartingCamera /\ AwaitsPreview) ~> ~isStartingCamera

(***************************************************************************)
(* Specification of the flow tracking after a close                       *)
(***************************************************************************)
\* largest flow id handed out
IdleFlows == 2

IdleBounded == Within(IdleFlows, MaxSelfieTasks, MaxInFlight, MaxPending)

IdleTakeSelfie == handleTakeSelfie /\ IdleBounded'

\* the camera starts and its preview is ready
IdleCameraSettles ==
  \E task \in SelfieTasks :
    \/ startCameraSettles(task, TRUE, Null)
    \/ waitForPreviewReadySettles(task, TRUE) /\ IdleBounded'

\* the timers of the flow run
IdleTimer ==
  \E t \in Timers :
    \/ runCountdownTimer(t)
    \/ countdownDoneTimer(t)
    \/ \E ready \in BOOLEAN : captureDelayTimer(t, ready) /\ IdleBounded'
    \/ \E ready \in BOOLEAN : retryIntervalTimer(t, ready) /\ IdleBounded'
    \/ captureTimeoutTimer(t)
    \/ stopCameraTimer(t)

\* capturePhoto() returns a file, and the photo is processed
IdleCaptureSettles ==
  \E task \in CaptureTasks :
    \/ capturePhotoSettles(task, "file") /\ IdleBounded'
    \/ fileToDataUrlSettles(task, TRUE)
    \/ createCelebrationCompositeSettles(task, TRUE)

IdleNext ==
  \/ OpenCelebration
  \/ IdleTakeSelfie
  \/ IdleCameraSettles
  \/ IdleTimer
  \/ IdleCaptureSettles
  \/ handleClose
  \/ closeEffect

\* every pending timer runs and every pending call settles; the user and the
\* re-run of the close effect are under no obligation
IdleSpec ==
  /\ OverlapInit
  /\ [][IdleNext]_vars
  /\ WF_vars(IdleCameraSettles)
  /\ WF_vars(IdleTimer)
  /\ WF_vars(IdleCaptureSettles)

\* the flow tracking is idle
FlowIdle ==
  /\ activeFlowIdRef = NoFlow
  /\ ~isCapturingRef
  /\ \A t \in Timers : t.kind # "retryInterval"

C38_NoticeOnlyAfterStoredWrite ==
  [][/\ \A setItemThrows \in BOOLEAN :
          (handleSaveToMemories(setItemThrows) /\ showSaveNotification') =>
            getMonthlyMemory(memoryStore', celebratingMonth) = selectedImage
     /\ \A task \in BagToSet(uploads) : \A setItemThrows \in BOOLEAN :
          uploadCompositeSettles(task, TRUE, setItemThrows) =>
            getMonthlyMemory(memoryStore', task.month) = "uploaded"]_vars

(***************************************************************************)
(* Specification of the Monthly Memory row of the summary                  *)
(***************************************************************************)
\* const shouldShowThumbnail = memoryImage && stats.isComplete
shouldShowThumbnail(month) == HasMemoryImage(month) /\ IsCompleteNow(month)

\* suspended handleFileChange calls followed at a time
RowUploads == 1

\* the dashboard after both seeded goals were completed, the first one in the
\* second month and the second one in the first month
MemoryRowInit ==
  /\ cards = [c \in CardIds |->
                IF c = "career"
                  THEN << [initialCards[c][1] EXCEPT !.completed = TRUE,
                                                     !.month = MONTHS[2]] >>
                  ELSE << [initialCards[c][1] EXCEPT !.month = MONTHS[1]] >>]
  /\ storedGoals = PersistEffect(cards)
  /\ editingGoal = None
  /\ editText = <<>>
  /\ view = "dashboard"
  /\ monthModalOpen = FALSE
  /\ selectedMonth = Null
  /\ pendingGoal = None
  /\ editTimers = <<>>
  /\ now = 0
  /\ lastOp = "load"
  /\ fault = NoFault
  /\ checkedState = EmptyMap
  /\ celebrationModalOpen = FALSE
  /\ celebratingMonth = Null
  /\ previousCompletionRef = EmptyMap
  /\ maybeLaterMonths = {}
  /\ monthlyMemories = NoMemories
  /\ openedInPass = {}
  /\ isSupported = TRUE
  /\ ModalMounted

RowCheckbox == \E c \in CardIds : \E i \in 1..Len(cards[c]) : handleCheckboxToggle(c, i)

RowPlaceholderClick == \E m \in MonthSet : handlePlaceholderClick(m)

RowUpload == handleFileChange /\ BagCardinality(uploads') <= RowUploads

RowUploadSettles ==
  \E task \in BagToSet(uploads) : \E ok \in BOOLEAN :
    \/ uploadFileToDataUrlSettles(task, ok)
    \/ \E setItemThrows \in BOOLEAN : uploadCompositeSettles(task, ok, setItemThrows)

MemoryRowNext ==
  \/ enterSummary
  \/ onBackToDashboard
  \/ RowCheckbox
  \/ RowPlaceholderClick
  \/ handleMaybeLater
  \/ handleClose
  \/ RowUpload
  \/ RowUploadSettles

MemoryRowSpec == MemoryRowInit /\ [][MemoryRowNext]_vars

\* the month has a memory in localStorage
MemoryStored(month) == IsMemory(getMonthlyMemory(memoryStore, month))

\* C39 (as claimed): in the summary the thumbnail of a month is shown exactly
\* when a memory is stored for the month and the month is complete by the
\* checkboxes, its placeholder exactly when no memory is stored and Maybe Later
\* was chosen for it since the summary was mounted, never both; and the
\* celebration opens only by a completion edge or a click on a shown placeholder.
C39_MemoryRowFollowsStore ==
  /\ [](view = "summary" =>
         \A m \in MonthSet :
           /\ shouldShowThumbnail(m) <=> (MemoryStored(m) /\ IsCompleteNow(m))
           /\ shouldShowPlaceholder(m) <=> (~MemoryStored(m) /\ m \in maybeLaterMonths)
           /\ ~(shouldShowThumbnail(m) /\ shouldShowPlaceholder(m)))
  /\ [][/\ (~celebrationModalOpen /\ celebrationModalOpen') =>
             \/ RowCheckbox /\ openedInPass' # {}
             \/ \E m \in MonthSet : shouldShowPlaceholder(m) /\ handlePlaceholderClick(m)
        /\ maybeLaterMonths' # maybeLaterMonths =>
             \/ handleMaybeLater /\ maybeLaterMonths' = maybeLaterMonths \cup {celebratingMonth}
             \/ (enterSummary \/ onBackToDashboard) /\ maybeLaterMonths' = {}]_vars

(***************************************************************************)
(* Specification of the percentages of small and of large months           *)
(***************************************************************************)
\* months of up to RoundingSmall goals, and of RoundingLarge - 2 to RoundingLarge
RoundingSmall == 8

RoundingLarge == 201

\* the least number of goals of which one goal is half a percent
HalfPercentTotal == 200

\* the summary view, just mounted, over a collection of added goals, all completed
\* in the first month
RoundingInit ==
  /\ \E total \in (1..RoundingSmall) \cup ((RoundingLarge - 2)..RoundingLarge) :
       cards = [c \in CardIds |->
                  IF c = "career"
                    THEN [i \in 1..total |->
                            [id |-> NewGoalId(c, i), text |-> NewGoalText,
                             completed |-> TRUE, month |-> MONTHS[1]]]
                    ELSE <<>>]
  /\ storedGoals = PersistEffect(cards)
  /\ editingGoal = None
  /\ editText = <<>>
  /\ view = "summary"
  /\ monthModalOpen = FALSE
  /\ selectedMonth = Null
  /\ pendingGoal = None
  /\ editTimers = <<>>
  /\ now = 0
  /\ lastOp = "setView"
  /\ fault = NoFault
  /\ checkedState = EmptyMap
  /\ celebrationModalOpen = FALSE
  /\ celebratingMonth = Null
  /\ previousCompletionRef = CurrentCompletion(cards, checkedState)
  /\ maybeLaterMonths = {}
  /\ monthlyMemories = NoMemories
  /\ openedInPass = {}
  /\ isSupported = TRUE
  /\ ModalMounted

\* the user checks the boxes one after the other
RoundingNext ==
  \/ StatsCheck
  \/ closeCelebration

RoundingSpec == RoundingInit /\ [][RoundingNext]_vars

\* the statistics the summary shows for a month
StatsNow(month) == calculateMonthStatistics(cards, checkedState, month)

\* C40 (as claimed): for every month with goals the completed percentage is 100
\* exactly when the month is complete and 0 exactly when no box is checked, and
\* completed and incomplete are percentages that add up to 100.
C40_HundredOnlyWhenComplete ==
  \A m \in MonthSet :
    LET s == StatsNow(m)
    IN s.progress[2] > 0 /\ s.progress # <<0, 1>> =>
         /\ s.completed = 100 <=> s.isComplete
         /\ s.completed = 0 <=> s.progress[1] = 0
         /\ s.completed + s.incomplete = 100
         /\ s.completed \in 0..100
         /\ s.incomplete \in 0..100

\* C40 (amended): completed and incomplete are percentages that add up to 100, a
\* complete month shows 100 and a month without a checked box 0; for a month of
\* fewer than HalfPercentTotal goals 100 is shown only when it is complete and 0
\* only when no box is checked.
C40_HundredOnlyWhenCompleteBelow200 ==
  \A m \in MonthSet :
    LET s == StatsNow(m)
        checkedGoals == s.progress[1]
        totalGoals == s.progress[2]
    IN s.progress # <<0, 1>> =>
         /\ s.completed + s.incomplete = 100
         /\ s.completed \in 0..100
         /\ s.incomplete \in 0..100
         /\ s.isComplete => s.completed = 100
         /\ checkedGoals = 0 => s.completed = 0
         /\ totalGoals < HalfPercentTotal =>
              /\ s.completed = 100 => s.isComplete
              /\ s.completed = 0 => checkedGoals = 0

\* all boxes but one of a month of HalfPercentTotal - 1 goals are checked: 99 is shown
C40_Witness ==
  LET s == StatsNow(MONTHS[1])
  IN /\ s.progress = <<HalfPercentTotal - 2, HalfPercentTotal - 1>>
     /\ s.completed = 99
     /\ ~s.isComplete

====
